---- MODULE Spec2Model ----
(***************************************************************************)
(* Verification model of the ad-rag-app retrieval-and-grounding path:      *)
(* word-window chunking, chunk dataset construction, FAISS index build /   *)
(* load, dense retrieval and citation-annotated answer generation.         *)
(*                                                                         *)
(* Python strings are modelled as sequences of one-character strings, so   *)
(* that str.split(), " ".join() and str.strip() are computed, not assumed. *)
(***************************************************************************)
EXTENDS Integers, Sequences, FiniteSets, TLC

VARIABLES
    c_pc,        \* chunk_text_words call: "idle" | "ready" | "done"
    c_text,      \* argument text
    c_size,      \* argument chunk_size_words
    c_overlap,   \* argument overlap_words
    c_min,       \* argument min_words
    c_result     \* outcome of the call: [ok, err, val]

chunkVars == <<c_pc, c_text, c_size, c_overlap, c_min, c_result>>

VARIABLES
    d_pc,        \* build_chunks_dataset: "idle" | "ready" | "writing" | "closed" | "done" | "failed"
    d_raw,       \* raw_dir: the PMC*.xml documents, in sorted path order
    d_params,    \* [size, overlap, min_words] arguments
    d_next,      \* number of documents processed so far
    d_gid,       \* global_chunk_id
    d_out,       \* chunks.jsonl: [exists, lines], lines being the records written
    d_meta,      \* chunks.meta.json: "absent" or "written"
    d_before     \* chunks.jsonl as it was when build_chunks_dataset was invoked

datasetVars == <<d_pc, d_raw, d_params, d_next, d_gid, d_out, d_meta, d_before>>

VARIABLES
    g_pc,        \* AnswerGenerator.generate call: "idle" | "ready" | "done"
    g_query,     \* argument query
    g_chunks,    \* argument chunks: list of RetrievedChunk
    g_raw,       \* raw_answer: what the completion capability returned
    g_result,    \* outcome of the call: [ok, err, val], val an AnswerWithCitations
    llm_calls,   \* number of llm_client.complete invocations
    g_completion \* how the last llm_client.complete ended: "none", "raised", "returned"

generateVars == <<g_pc, g_query, g_chunks, g_raw, g_result, llm_calls, g_completion>>

VARIABLES
    s_index,     \* IndexStore.index: None or Some([d, vectors])
    s_lookup,    \* IndexStore.lookup: list of ChunkRecord
    s_meta,      \* IndexStore.meta: the run metadata dict ({} before a load)
    l_pc,        \* IndexStore.load: "idle" | "ready" | "meta_loaded" | "index_loaded" |
                 \*   "lookup_open" | "lookup_loaded" | "done" | "failed"
    l_line,      \* number of lines of the lookup file the loop of load has read
    l_err        \* the error load raised, "none" if none

storeVars == <<s_index, s_lookup, s_meta, l_pc, l_line, l_err>>

VARIABLES
    r_pc,        \* Retriever.retrieve call: "idle" | "ready" | "encoded" | "tested" |
                 \*   "searched" | "row_checked" | "done"
    r_query,     \* argument query
    r_k,         \* argument k
    r_search,    \* (indices[0], D[0]) as returned by index.search, <<>> if not called
    r_qvec,      \* the query vector embedder.encode returned: None or Some(vector)
    r_seen,      \* the index the call searched and the lookup as it last read it:
                 \*   None or Some
    r_index,     \* the index index.search was called on: None or Some(index)
    r_i,         \* number of rows of the search result the loop has taken
    r_result,    \* outcome of the call: [ok, err, val]
    embed_calls  \* number of embedder.encode invocations

retrieveVars == <<r_pc, r_query, r_k, r_search, r_qvec, r_seen, r_index, r_i, r_result, embed_calls>>

VARIABLES
    fs_dir,      \* whether the directory out_dir exists
    fs_index,    \* out_dir/faiss.index: [exists, valid, index]
    fs_lookup,   \* out_dir/lookup.jsonl: [exists, lines]
    fs_meta      \* out_dir/index.meta.json: [exists, valid, data]

fsVars == <<fs_dir, fs_index, fs_lookup, fs_meta>>

VARIABLES
    b_pc,        \* build_faiss_index_from_chunks: "idle" | "ready" | "prepared" |
                 \*   "index_saved" | "lookup_open" | "lookup_saved" | "meta_open" |
                 \*   "done" | "failed"
    b_chunks,    \* the chunks.jsonl given as chunks_path: [exists, lines]
    b_metric,    \* argument metric
    b_force,     \* argument force
    b_mem,       \* locals once the chunks are loaded: [metas, index, run_meta]
    b_err,       \* the error raised, "none" if none
    b_before     \* out_dir as it was when the build was invoked: [dir, index, lookup, meta]

buildVars == <<b_pc, b_chunks, b_metric, b_force, b_mem, b_err, b_before>>

VARIABLES
    a_pc,        \* RAGService.answer call: "idle" | "ready" | "retrieved" | "done" | "failed"
    a_result     \* outcome of the call: [ok, err, val], val an AnswerWithCitations

answerVars == <<a_pc, a_result>>

VARIABLES
    m_pc,        \* process start-up: "idle" | "importing" | "starting" | "serving" | "failed"
    rag_service, \* the global rag_service is set (not None)
    m_provider,  \* environment variable LLM_PROVIDER
    m_keys,      \* providers whose API key is in the environment
    m_client,    \* outcome of get_llm_client, once it has been called
    h_pc,        \* HTTP request: "idle" | "answering" | "retrieving" | "responded"
    h_endpoint,  \* "none" | "/query" | "/retrieve"
    h_query,     \* request.question or request.query
    h_unset,     \* the handler found rag_service is None
    h_status     \* HTTP status of the response, 0 before there is one

apiVars == <<m_pc, rag_service, m_provider, m_keys, m_client, h_pc, h_endpoint, h_query, h_unset, h_status>>

VARIABLES
    f_pc,        \* fetch_pmc_corpus call: "idle" | "ready" | "loop" | "done" | "raised"
    f_pmids,     \* number of PMIDs search_pubmed returned
    f_i,         \* number of PMIDs the loop has taken
    f_target,    \* argument target_n
    f_resume,    \* argument resume
    f_manifest,  \* argument manifest_path is given
    f_counts,    \* counts: downloaded, skipped, failed, no_link
    f_files,     \* PMC ids whose XML file exists in out_dir
    f_log        \* per PMID taken: what the iteration did

fetchVars == <<f_pc, f_pmids, f_i, f_target, f_resume, f_manifest, f_counts, f_files, f_log>>

VARIABLES
    p_pc,        \* a second, concurrent build into the same out_dir: position as b_pc
    p_chunks,    \* its chunks file
    p_mem,       \* its texts, index and run metadata in memory
    p_err        \* its error

rivalVars == <<p_pc, p_chunks, p_mem, p_err>>

vars == <<chunkVars, datasetVars, generateVars, storeVars, retrieveVars, fsVars, buildVars, answerVars, apiVars, fetchVars, rivalVars>>

(***************************************************************************)
(* Bounds of the explored input space.                                     *)
(***************************************************************************)
MaxTextLen == 9
MaxSize == 4
MaxMinWords == 2
MaxDocs == 3
MaxChunks == 2
MaxRows == 3
MaxK == 3
MaxQueryLen == 2
MaxLines == 3
MaxPmids == 3
MaxTarget == 2
MaxAnswerTokens == 3

(***************************************************************************)
(* Generic helpers.                                                        *)
(***************************************************************************)
Min(a, b) == IF a < b THEN a ELSE b

SeqsUpTo(S, n) == UNION {[1..m -> S] : m \in 0..n}

\* a file of the file system: absent, or present with its lines
NoFile == [exists |-> FALSE, lines |-> <<>>]
File(lines) == [exists |-> TRUE, lines |-> lines]

\* Optional[T]: None is the empty sequence, a value v is <<v>>
None == <<>>
Some(v) == <<v>>

NoResult == [ok |-> FALSE, err |-> "none", val |-> <<>>]
Return(v) == [ok |-> TRUE, err |-> "none", val |-> v]
Raise(e) == [ok |-> FALSE, err |-> e, val |-> <<>>]

\* Python dicts are functions from keys to values; in {**a, **b} b's keys win
DictMerge(a, b) ==
    [k \in (DOMAIN a) \cup (DOMAIN b) |-> IF k \in DOMAIN b THEN b[k] ELSE a[k]]

\* d[key] = value
DictSet(d, key, value) ==
    [k \in (DOMAIN d) \cup {key} |-> IF k = key THEN value ELSE d[k]]

(***************************************************************************)
(* Python string primitives.                                               *)
(***************************************************************************)
TextChars == {"a", " "}

isspace(c) == c = " "

RECURSIVE SplitFrom(_, _, _, _)
SplitFrom(s, i, cur, acc) ==
    IF i > Len(s)
    THEN IF cur = <<>> THEN acc ELSE Append(acc, cur)
    ELSE IF isspace(s[i])
         THEN SplitFrom(s, i + 1, <<>>, IF cur = <<>> THEN acc ELSE Append(acc, cur))
         ELSE SplitFrom(s, i + 1, Append(cur, s[i]), acc)

\* str.split(): split on runs of whitespace, no empty words
split(s) == SplitFrom(s, 1, <<>>, <<>>)

RECURSIVE join(_)
\* " ".join(words)
join(words) ==
    IF words = <<>> THEN <<>>
    ELSE IF Len(words) = 1 THEN words[1]
    ELSE words[1] \o <<" ">> \o join(Tail(words))

RECURSIVE lstrip(_)
lstrip(s) == IF s # <<>> /\ isspace(s[1]) THEN lstrip(Tail(s)) ELSE s

RECURSIVE rstrip(_)
rstrip(s) ==
    IF s # <<>> /\ isspace(s[Len(s)]) THEN rstrip(SubSeq(s, 1, Len(s) - 1)) ELSE s

\* str.strip()
strip(s) == rstrip(lstrip(s))

\* seq[start:end] for 0 <= start, Python slice semantics (end clipped)
Slice(seq, start, end) == SubSeq(seq, start + 1, Min(end, Len(seq)))

(***************************************************************************)
(* chunking.py: chunk_text_words                                           *)
(***************************************************************************)
RECURSIVE SlideWindows(_, _, _, _, _)
\* the while loop: one window per start position, start advancing by step
SlideWindows(words, start, size, step, chunks) ==
    IF ~(start < Len(words)) THEN chunks
    ELSE LET end == start + size
             chunk == strip(join(Slice(words, start, end)))
             w == [text |-> chunk, start |-> start, stop |-> Min(end, Len(words))]
         IN SlideWindows(words, start + step, size, step,
                         IF chunk # <<>> THEN Append(chunks, w) ELSE chunks)

RECURSIVE FilterMinWords(_, _)
\* [c for c in chunks if len(c.split()) >= min_words]
FilterMinWords(chunks, min_words) ==
    IF chunks = <<>> THEN <<>>
    ELSE (IF Len(split(Head(chunks).text)) >= min_words THEN <<Head(chunks)>> ELSE <<>>)
         \o FilterMinWords(Tail(chunks), min_words)

\* variant: the window advances by the full size, ignoring the overlap
chunk_windows_nooverlap(text, chunk_size_words, overlap_words, min_words) ==
    LET words == split(text)
        chunks == SlideWindows(words, 0, chunk_size_words, chunk_size_words, <<>>)
    IN FilterMinWords(chunks, min_words)

RECURSIVE SlideWindowsUntilEnd(_, _, _, _, _)
\* variant of the loop: stops after the first window that reaches the last word
SlideWindowsUntilEnd(words, start, size, step, chunks) ==
    IF ~(start < Len(words)) THEN chunks
    ELSE LET end == start + size
             chunk == strip(join(Slice(words, start, end)))
             w == [text |-> chunk, start |-> start, stop |-> Min(end, Len(words))]
         IN IF end >= Len(words) THEN Append(chunks, w)
            ELSE SlideWindowsUntilEnd(words, start + step, size, step, Append(chunks, w))

\* variant: no window starts after the text's last word is covered
chunk_windows_until_end(text, chunk_size_words, overlap_words, min_words) ==
    LET words == split(text)
        chunks == SlideWindowsUntilEnd(words, 0, chunk_size_words,
                                       chunk_size_words - overlap_words, <<>>)
    IN FilterMinWords(chunks, min_words)

\* the windows that survive the final min_words filter, with their word spans
chunk_windows(text, chunk_size_words, overlap_words, min_words) ==
    LET words == split(text)
        chunks == SlideWindows(words, 0, chunk_size_words,
                               chunk_size_words - overlap_words, <<>>)
    IN FilterMinWords(chunks, min_words)

\* variant: the single-chunk shortcut taken only for strictly fewer words than size
chunk_text_words_strict(text, chunk_size_words, overlap_words, min_words) ==
    LET words == split(text) IN
    IF Len(words) < min_words THEN Return(<<>>)
    ELSE IF chunk_size_words <= 0 THEN Raise("ValueError")
    ELSE IF overlap_words < 0 \/ overlap_words >= chunk_size_words THEN Raise("ValueError")
    ELSE IF Len(words) < chunk_size_words THEN Return(<<join(words)>>)
    ELSE LET wins == chunk_windows(text, chunk_size_words, overlap_words, min_words)
         IN Return([i \in 1..Len(wins) |-> wins[i].text])

chunk_text_words(text, chunk_size_words, overlap_words, min_words) ==
    LET words == split(text) IN
    IF Len(words) < min_words THEN Return(<<>>)
    ELSE IF chunk_size_words <= 0 THEN Raise("ValueError")
    ELSE IF overlap_words < 0 \/ overlap_words >= chunk_size_words THEN Raise("ValueError")
    ELSE IF Len(words) <= chunk_size_words THEN Return(<<join(words)>>)
    ELSE LET wins == chunk_windows(text, chunk_size_words, overlap_words, min_words)
         IN Return([i \in 1..Len(wins) |-> wins[i].text])

(***************************************************************************)
(* Specification SpecChunk: one call of chunk_text_words on any input.     *)
(***************************************************************************)
ChunkInit ==
    /\ c_pc = "ready"
    /\ c_text \in SeqsUpTo(TextChars, MaxTextLen)
    /\ c_size \in -1..MaxSize
    /\ c_overlap \in -1..MaxSize
    /\ c_min \in 0..MaxMinWords
    /\ c_result = NoResult

ChunkCall ==
    /\ c_pc = "ready"
    /\ c_result' = chunk_text_words(c_text, c_size, c_overlap, c_min)
    /\ c_pc' = "done"
    /\ UNCHANGED <<c_text, c_size, c_overlap, c_min>>
    /\ UNCHANGED <<datasetVars, generateVars, storeVars, retrieveVars, fsVars, buildVars, answerVars, apiVars, fetchVars, rivalVars>>

ChunkIdle ==
    /\ c_pc = "idle" /\ c_text = <<>> /\ c_size = 0 /\ c_overlap = 0 /\ c_min = 0
    /\ c_result = NoResult

(***************************************************************************)
(* chunking.py: build_chunk_records_for_article, build_chunks_dataset      *)
(*                                                                         *)
(* A document is what ET.fromstring and extract_sections_from_pmc_xml make *)
(* of one XML file: either it does not parse, or it yields its sections'   *)
(* texts in document order.                                                *)
(***************************************************************************)
ShortSection == <<"a">>
LongSection == <<"a", " ", "a", "a", " ", "a">>

Documents ==
    { [parses |-> FALSE, sections |-> <<>>],
      [parses |-> TRUE, sections |-> <<>>],
      [parses |-> TRUE, sections |-> <<ShortSection>>],
      [parses |-> TRUE, sections |-> <<LongSection>>],
      [parses |-> TRUE, sections |-> <<ShortSection, LongSection>>] }

\* window arguments: valid with overlap, valid with min_words 2, size 0, overlap = size
WindowParams ==
    { [size |-> 2, overlap |-> 1, min_words |-> 1],
      [size |-> 2, overlap |-> 0, min_words |-> 2],
      [size |-> 0, overlap |-> 0, min_words |-> 1],
      [size |-> 2, overlap |-> 2, min_words |-> 2] }

\* extract_basic_metadata: optional bibliographic fields (absent in the model's documents)
base_md == [journal |-> "None", doi |-> "None", year |-> "None", month |-> "None"]

\* xml_path.stem of the i-th file of the sorted glob
DocName(i) == <<"PMC1", "PMC2", "PMC3", "PMC4", "PMC5", "PMC6">>[i]

\* the records of one section: one per window, in window order
SectionRecords(pmcid, sec_idx, chunks) ==
    [i \in 1..Len(chunks) |->
        DictMerge([pmcid |-> pmcid, pmid |-> "None", section_index |-> sec_idx,
                   section_title |-> "SECTION", chunk_index_in_section |-> i - 1,
                   text |-> chunks[i]],
                  DictMerge(base_md, [source_xml |-> pmcid]))]

RECURSIVE ArticleSections(_, _, _, _, _, _, _)
\* the loop over sections; a ValueError of chunk_text_words propagates
ArticleSections(pmcid, sections, sec_idx, size, overlap, min_words, records) ==
    IF sec_idx >= Len(sections) THEN Return(records)
    ELSE LET chunks == chunk_text_words(sections[sec_idx + 1], size, overlap, min_words)
         IN IF ~chunks.ok THEN chunks
            ELSE ArticleSections(pmcid, sections, sec_idx + 1, size, overlap, min_words,
                                 records \o SectionRecords(pmcid, sec_idx, chunks.val))

\* variant: a document that fails to parse raises instead of yielding no records
build_chunk_records_strict(pmcid, doc, chunk_size_words, overlap_words, min_words) ==
    IF ~doc.parses THEN Raise("ParseError")
    ELSE ArticleSections(pmcid, doc.sections, 0, chunk_size_words, overlap_words,
                         min_words, <<>>)

build_chunk_records_for_article(pmcid, doc, chunk_size_words, overlap_words, min_words) ==
    IF ~doc.parses THEN Return(<<>>)
    ELSE ArticleSections(pmcid, doc.sections, 0, chunk_size_words, overlap_words,
                         min_words, <<>>)

\* variant: every record gets the id the document started with
WriteRecordsFrozenId(records, global_chunk_id, out) ==
    out \o [i \in 1..Len(records) |-> DictSet(records[i], "chunk_id", Some(global_chunk_id))]

RECURSIVE WriteRecords(_, _, _)
\* for rec in records: rec["chunk_id"] = global_chunk_id; write; global_chunk_id += 1
\* (the value of the key chunk_id is an integer or null: Some(n) or None)
WriteRecords(records, global_chunk_id, out) ==
    IF records = <<>> THEN out
    ELSE WriteRecords(Tail(records), global_chunk_id + 1,
                      Append(out, DictSet(Head(records), "chunk_id", Some(global_chunk_id))))

\* the chunks.jsonl an earlier run left in out_dir
EarlierDataset == File(WriteRecords(SectionRecords("PMC9", 0, <<ShortSection>>), 0, <<>>))

\* the dataset build touches nothing but its own state
DatasetFrame == UNCHANGED <<chunkVars, generateVars, storeVars, retrieveVars, fsVars, buildVars, answerVars, apiVars, fetchVars, rivalVars>>

DatasetInit ==
    /\ d_pc = "ready"
    /\ d_raw \in SeqsUpTo(Documents, MaxDocs)
    /\ d_params \in WindowParams
    /\ d_next = 0
    /\ d_gid = 0
    /\ d_out \in {NoFile, File(<<>>), EarlierDataset}
    /\ d_meta = IF d_out.exists THEN "written" ELSE "absent"
    /\ d_before = d_out

DatasetIdle ==
    /\ d_pc = "idle" /\ d_raw = <<>> /\ d_params = [size |-> 0, overlap |-> 0, min_words |-> 0]
    /\ d_next = 0 /\ d_gid = 0 /\ d_out = NoFile /\ d_meta = "absent" /\ d_before = NoFile

\* out_dir.mkdir, sorted glob, out_path.open("w"): the dataset file is created or truncated
DatasetOpen ==
    /\ d_pc = "ready"
    /\ d_pc' = "writing"
    /\ d_out' = File(<<>>)
    /\ d_gid' = 0
    /\ UNCHANGED <<d_raw, d_params, d_next, d_meta, d_before>>
    /\ DatasetFrame

\* one iteration of the loop over xml_files
DatasetDocument ==
    /\ d_pc = "writing"
    /\ d_next < Len(d_raw)
    /\ LET records == build_chunk_records_for_article(DocName(d_next + 1), d_raw[d_next + 1],
                           d_params.size, d_params.overlap, d_params.min_words)
       IN IF records.ok
          THEN /\ d_out' = File(WriteRecords(records.val, d_gid, d_out.lines))
               /\ d_gid' = d_gid + Len(records.val)
               /\ d_next' = d_next + 1
               /\ d_pc' = "writing"
          ELSE /\ d_pc' = "failed"
               /\ UNCHANGED <<d_out, d_gid, d_next>>
    /\ UNCHANGED <<d_raw, d_params, d_meta, d_before>>
    /\ DatasetFrame

\* the loop is over: the file is closed and the companion metadata written
DatasetFinish ==
    /\ d_pc = "writing"
    /\ d_next = Len(d_raw)
    /\ d_meta' = "written"
    /\ d_pc' = "done"
    /\ UNCHANGED <<d_raw, d_params, d_next, d_gid, d_out, d_before>>
    /\ DatasetFrame

DatasetNext == DatasetOpen \/ DatasetDocument \/ DatasetFinish

(***************************************************************************)
(* types.py: ChunkRecord, RetrievedChunk, Citation, AnswerWithCitations    *)
(***************************************************************************)
\* positional fields: row_id, text, pmcid, pmid, section_title,
\* chunk_index_in_section, source_xml, chunk_id
ChunkRecord(row_id, text, pmcid, pmid, title, ordinal, source_xml, chunk_id) ==
    [row_id |-> row_id, text |-> text, pmcid |-> pmcid, pmid |-> pmid,
     section_title |-> title, chunk_index_in_section |-> ordinal,
     source_xml |-> source_xml, chunk_id |-> chunk_id]

RetrievedChunk(record, score) == [record |-> record, score |-> score]

Citation(chunk_id, pmcid, text_snippet) ==
    [chunk_id |-> chunk_id, pmcid |-> pmcid, text_snippet |-> text_snippet]

AnswerWithCitations(answer, citations, context_used) ==
    [answer |-> answer, citations |-> citations, context_used |-> context_used]

\* the run metadata dict; embedding_dim is None when the key is absent or null
RunMeta(embedding_dim, num_chunks) == [embedding_dim |-> embedding_dim, num_chunks |-> num_chunks]

\* the dict {}
EmptyMeta == RunMeta(None, 0)

(***************************************************************************)
(* generator.py: AnswerGenerator                                           *)
(***************************************************************************)
SnippetLen == 50

NoDocumentsAnswer ==
    <<"I", " ", "f", "o", "u", "n", "d", " ", "n", "o", " ", "r", "e",
    "l", "e", "v", "a", "n", "t", " ", "d", "o", "c", "u", "m", "e", "n",
    "t", "s", " ", "t", "o", " ", "a", "n", "s", "w", "e", "r", " ", "y",
    "o", "u", "r", " ", "q", "u", "e", "s", "t", "i", "o", "n", ".">>

isdigit(c) == c \in {"0", "1", "2", "3", "4", "5", "6", "7", "8", "9"}

DigitValue(c) ==
    CASE c = "0" -> 0 [] c = "1" -> 1 [] c = "2" -> 2 [] c = "3" -> 3 [] c = "4" -> 4
      [] c = "5" -> 5 [] c = "6" -> 6 [] c = "7" -> 7 [] c = "8" -> 8 [] c = "9" -> 9

RECURSIVE int(_)
\* int(match) for a non-empty string of digits
int(digits) ==
    IF Len(digits) = 1 THEN DigitValue(digits[1])
    ELSE 10 * int(SubSeq(digits, 1, Len(digits) - 1)) + DigitValue(digits[Len(digits)])

RECURSIVE DigitsEnd(_, _)
\* first position at or after i that does not hold a digit
DigitsEnd(s, i) == IF i <= Len(s) /\ isdigit(s[i]) THEN DigitsEnd(s, i + 1) ELSE i

RECURSIVE FindMarkers(_, _, _)
\* re.findall(r"\[(\d+)\]", s): the digit groups of the non-overlapping matches,
\* scanning left to right from position i
FindMarkers(s, i, matches) ==
    IF i > Len(s) THEN matches
    ELSE IF s[i] = "["
         THEN LET j == DigitsEnd(s, i + 1)
              IN IF j > i + 1 /\ j <= Len(s) /\ s[j] = "]"
                 THEN FindMarkers(s, j + 1, Append(matches, SubSeq(s, i + 1, j - 1)))
                 ELSE FindMarkers(s, i + 1, matches)
         ELSE FindMarkers(s, i + 1, matches)

findall(s) == FindMarkers(s, 1, <<>>)

\* the Citation built for a cited chunk
CitationOf(chunk) ==
    Citation(IF chunk.record.chunk_id # None THEN chunk.record.chunk_id[1] ELSE -1,
             chunk.record.pmcid,
             IF Len(chunk.record.text) > SnippetLen
             THEN SubSeq(chunk.record.text, 1, SnippetLen) \o <<".", ".", ".">>
             ELSE chunk.record.text)

RECURSIVE CiteLoop(_, _, _, _)
\* the loop over matches, carrying citations and seen_indices
CiteLoop(matches, chunks, citations, seen_indices) ==
    IF matches = <<>> THEN citations
    ELSE LET idx == int(Head(matches)) - 1
         IN IF idx < 0 \/ idx >= Len(chunks)
            THEN CiteLoop(Tail(matches), chunks, citations, seen_indices)
            ELSE IF idx \in seen_indices
            THEN CiteLoop(Tail(matches), chunks, citations, seen_indices)
            ELSE CiteLoop(Tail(matches), chunks,
                          Append(citations, CitationOf(chunks[idx + 1])),
                          seen_indices \cup {idx})

RECURSIVE CiteLoopNoSeen(_, _, _)
\* variant: the loop without the seen_indices test
CiteLoopNoSeen(matches, chunks, citations) ==
    IF matches = <<>> THEN citations
    ELSE LET idx == int(Head(matches)) - 1
         IN IF idx < 0 \/ idx >= Len(chunks)
            THEN CiteLoopNoSeen(Tail(matches), chunks, citations)
            ELSE CiteLoopNoSeen(Tail(matches), chunks,
                                Append(citations, CitationOf(chunks[idx + 1])))

parse_citations_repeating(answer, chunks) == CiteLoopNoSeen(findall(answer), chunks, <<>>)

\* AnswerGenerator._parse_citations
parse_citations(answer, chunks) == CiteLoop(findall(answer), chunks, <<>>, {})

EmptyAnswer == AnswerWithCitations(<<>>, <<>>, <<>>)

\* an outcome of generate: the value or the error, and the number of completion calls made
Generated(v, calls) == [ok |-> TRUE, err |-> "none", val |-> v, calls |-> calls]
GenerateFailed(e, calls) == [ok |-> FALSE, err |-> e, val |-> EmptyAnswer, calls |-> calls]

\* how llm_client.complete ended in a call of generate with outcome out
Completed(out, completion) ==
    IF out.calls = 0 THEN "none" ELSE IF completion.ok THEN "returned" ELSE "raised"

\* variant: the completion capability is invoked before the chunks are looked at
generate_eager(query, chunks, completion) ==
    IF ~completion.ok THEN GenerateFailed("CompletionError", 1)
    ELSE IF chunks = <<>>
    THEN Generated(AnswerWithCitations(NoDocumentsAnswer, <<>>, <<>>), 1)
    ELSE Generated(AnswerWithCitations(strip(completion.text),
                                       parse_citations(completion.text, chunks),
                                       chunks), 1)

\* AnswerGenerator.generate; completion is what llm_client.complete(prompt) does if called
generate(query, chunks, completion) ==
    IF chunks = <<>>
    THEN Generated(AnswerWithCitations(NoDocumentsAnswer, <<>>, <<>>), 0)
    ELSE IF ~completion.ok THEN GenerateFailed("CompletionError", 1)
    ELSE Generated(AnswerWithCitations(strip(completion.text),
                                       parse_citations(completion.text, chunks),
                                       chunks), 1)

(***************************************************************************)
(* Specification SpecGenerate: one call of generate on any chunk list,     *)
(* with any behaviour of the completion capability.                        *)
(***************************************************************************)
LongText == [i \in 1..(SnippetLen + 1) |-> "t"]

ContextChunks ==
    { RetrievedChunk(ChunkRecord(0, <<"t", "1">>, "PMC1", None, "Intro", 0, "x", Some(101)), 9),
      RetrievedChunk(ChunkRecord(1, LongText, "PMC2", None, "Results", 0, "x", None), 8) }

AnswerTokens ==
    { <<"[", "1", "]">>, <<"[", "2", "]">>, <<"[", "3", "]">>, <<"[", "0", "]">>,
      <<"[">>, <<"]">>, <<"1">>, <<" ">> }

RECURSIVE Flatten(_)
Flatten(tokens) == IF tokens = <<>> THEN <<>> ELSE Head(tokens) \o Flatten(Tail(tokens))

AnswerTexts == {Flatten(ts) : ts \in SeqsUpTo(AnswerTokens, MaxAnswerTokens)}

\* what the completion capability can do: fail, or return any text
Completions ==
    {[ok |-> FALSE, text |-> <<>>]} \cup {[ok |-> TRUE, text |-> a] : a \in AnswerTexts}

\* the completions drawn when generate runs inside RAGService.answer
AnswerCompletions ==
    {[ok |-> FALSE, text |-> <<>>]}
        \cup {[ok |-> TRUE, text |-> Flatten(ts)] :
                 ts \in { <<<<" ">>>>, <<<<"[", "1", "]">>, <<" ">>>>,
                          <<<<"[", "2", "]">>, <<"[", "1", "]">>, <<"[", "2", "]">>>> }}

GenerateQueries == { <<>>, <<"q">> }

GenerateInit ==
    /\ g_pc = "ready"
    /\ g_query \in GenerateQueries
    /\ g_chunks \in SeqsUpTo(ContextChunks, MaxChunks)
    /\ g_raw = <<>>
    /\ g_result = GenerateFailed("none", 0)
    /\ llm_calls = 0
    /\ g_completion = "none"

GenerateIdle ==
    /\ g_pc = "idle" /\ g_query = <<>> /\ g_chunks = <<>> /\ g_raw = <<>>
    /\ g_result = GenerateFailed("none", 0) /\ llm_calls = 0
    /\ g_completion = "none"

GenerateCall ==
    /\ g_pc = "ready"
    /\ \E completion \in Completions :
          LET out == generate(g_query, g_chunks, completion)
          IN /\ g_result' = out
             /\ llm_calls' = llm_calls + out.calls
             /\ g_raw' = IF out.calls > 0 THEN completion.text ELSE <<>>
             /\ g_completion' = Completed(out, completion)
    /\ g_pc' = "done"
    /\ UNCHANGED <<g_query, g_chunks>>
    /\ UNCHANGED <<chunkVars, datasetVars, storeVars, retrieveVars, fsVars, buildVars, answerVars, apiVars, fetchVars, rivalVars>>

(***************************************************************************)
(* retrieval.py: Retriever.retrieve, against an IndexStore                 *)
(*                                                                         *)
(* The FAISS index is [d, vectors]; its search primitive returns exactly k *)
(* (row, score) pairs, best inner product first, padded with the sentinel  *)
(* row -1 when the index holds fewer than k vectors.  Ties may come in any *)
(* order.                                                                  *)
(***************************************************************************)
NegInf == -1000

FaissIndex(d, vectors) == [d |-> d, vectors |-> vectors]

\* index.ntotal
ntotal(index) == Len(index.vectors)

RECURSIVE Dot(_, _)
Dot(u, v) == IF u = <<>> THEN 0 ELSE u[1] * v[1] + Dot(Tail(u), Tail(v))

\* the orders in which the m best rows of the index can be returned
TopOrders(index, qvec, m) ==
    LET score(row) == Dot(index.vectors[row + 1], qvec)
        rows == 0..(ntotal(index) - 1)
    IN {seq \in [1..m -> rows] :
          /\ \A i, j \in 1..m : i # j => seq[i] # seq[j]
          /\ \A j \in 1..(m - 1) : score(seq[j]) >= score(seq[j + 1])
          /\ \A row \in rows :
                (\A j \in 1..m : seq[j] # row) => \A j \in 1..m : score(row) <= score(seq[j])}

\* index.search(query_vector, k) for k > 0: the possible results
search(index, qvec, k) ==
    LET m == Min(k, ntotal(index))
    IN {[j \in 1..k |-> IF j <= m
                        THEN [row |-> seq[j], score |-> Dot(index.vectors[seq[j] + 1], qvec)]
                        ELSE [row |-> -1, score |-> NegInf]] :
            seq \in TopOrders(index, qvec, m)}

RECURSIVE MapResults(_, _, _)
\* the loop over zip(row_ids, scores)
MapResults(found, lookup, results) ==
    IF found = <<>> THEN Return(results)
    ELSE LET row_id == Head(found).row
             score == Head(found).score
         IN IF row_id = -1 THEN MapResults(Tail(found), lookup, results)
            ELSE IF row_id < 0 \/ row_id >= Len(lookup)
            THEN MapResults(Tail(found), lookup, results)
            ELSE MapResults(Tail(found), lookup,
                            Append(results, RetrievedChunk(lookup[row_id + 1], score)))

RECURSIVE MapResultsUnchecked(_, _, _)
\* variant: lookup[row_id] without any range test (Python indexing: a negative
\* index counts from the end, an index past the end raises)
MapResultsUnchecked(found, lookup, results) ==
    IF found = <<>> THEN Return(results)
    ELSE LET row_id == Head(found).row
             score == Head(found).score
         IN IF row_id >= Len(lookup) \/ row_id < 0 - Len(lookup) THEN Raise("IndexError")
            ELSE MapResultsUnchecked(Tail(found), lookup,
                    Append(results,
                           RetrievedChunk(lookup[IF row_id >= 0 THEN row_id + 1
                                                 ELSE Len(lookup) + row_id + 1], score)))

\* index.search asserts that the query has the index's dimension and that k > 0
SearchAccepts(index, qvec, k) == Len(qvec) = index.d /\ k > 0

\* an outcome of retrieve: the value or the error, the number of encode calls
\* made and the raw search result (<<>> when the search was not reached)
Retrieved(res, encoded, found) == [ok |-> res.ok, err |-> res.err, val |-> res.val, encoded |-> encoded, found |-> found]

\* what encode returned in a call of retrieve with outcome out: None if it was
\* not called or raised
QueryVector(out, embedding) ==
    IF out.encoded = 1 /\ embedding.ok THEN Some(embedding.vector) ELSE None

\* the store's index and lookup as read by a call of retrieve with outcome out,
\* None if the call ended before the search
Seen(out, index, lookup) ==
    IF out.found # <<>> THEN Some([index |-> index[1], lookup |-> lookup]) ELSE None

\* the index a call of retrieve with outcome out searched, None if the call
\* ended before the search
Searched(out, index) == IF out.found # <<>> THEN index ELSE None

\* variant: a store without index yields no results instead of an error
retrieve_unloaded_empty(index, lookup, query, k, embedding, found) ==
    IF strip(query) = <<>> THEN Retrieved(Return(<<>>), 0, <<>>)
    ELSE IF ~embedding.ok THEN Retrieved(Raise("EmbeddingError"), 1, <<>>)
    ELSE IF index = None THEN Retrieved(Return(<<>>), 1, <<>>)
    ELSE IF ~SearchAccepts(index[1], embedding.vector, k)
    THEN Retrieved(Raise("AssertionError"), 1, <<>>)
    ELSE Retrieved(MapResults(found, lookup, <<>>), 1, found)

\* variant: the query is embedded before the blank test
retrieve_embed_first(index, lookup, query, k, embedding, found) ==
    IF ~embedding.ok THEN Retrieved(Raise("EmbeddingError"), 1, <<>>)
    ELSE IF strip(query) = <<>> THEN Retrieved(Return(<<>>), 1, <<>>)
    ELSE IF index = None THEN Retrieved(Raise("RuntimeError"), 1, <<>>)
    ELSE IF ~SearchAccepts(index[1], embedding.vector, k)
    THEN Retrieved(Raise("AssertionError"), 1, <<>>)
    ELSE Retrieved(MapResults(found, lookup, <<>>), 1, found)

\* variant: the rows are mapped without the sentinel and range tests
retrieve_unchecked(index, lookup, query, k, embedding, found) ==
    IF strip(query) = <<>> THEN Retrieved(Return(<<>>), 0, <<>>)
    ELSE IF ~embedding.ok THEN Retrieved(Raise("EmbeddingError"), 1, <<>>)
    ELSE IF index = None THEN Retrieved(Raise("RuntimeError"), 1, <<>>)
    ELSE IF ~SearchAccepts(index[1], embedding.vector, k)
    THEN Retrieved(Raise("AssertionError"), 1, <<>>)
    ELSE Retrieved(MapResultsUnchecked(found, lookup, <<>>), 1, found)

\* variant: the index-not-loaded test comes before the blank-query test
retrieve_unloaded_first(index, lookup, query, k, embedding, found) ==
    IF index = None THEN Retrieved(Raise("RuntimeError"), 0, <<>>)
    ELSE IF strip(query) = <<>> THEN Retrieved(Return(<<>>), 0, <<>>)
    ELSE IF ~embedding.ok THEN Retrieved(Raise("EmbeddingError"), 1, <<>>)
    ELSE IF ~SearchAccepts(index[1], embedding.vector, k)
    THEN Retrieved(Raise("AssertionError"), 1, <<>>)
    ELSE Retrieved(MapResults(found, lookup, <<>>), 1, found)

\* Retriever.retrieve; embedding is what embedder.encode([query]) does if called,
\* found what index.search(query_vector, k) returns if called
retrieve(index, lookup, query, k, embedding, found) ==
    IF strip(query) = <<>> THEN Retrieved(Return(<<>>), 0, <<>>)
    ELSE IF ~embedding.ok THEN Retrieved(Raise("EmbeddingError"), 1, <<>>)
    ELSE IF index = None THEN Retrieved(Raise("RuntimeError"), 1, <<>>)
    ELSE IF ~SearchAccepts(index[1], embedding.vector, k)
    THEN Retrieved(Raise("AssertionError"), 1, <<>>)
    ELSE Retrieved(MapResults(found, lookup, <<>>), 1, found)

\* what index.search can return when retrieve reaches it, {<<>>} when it does not
SearchResults(index, embedding, k) ==
    IF index # None /\ embedding.ok /\ SearchAccepts(index[1], embedding.vector, k)
    THEN search(index[1], embedding.vector, k) ELSE {<<>>}

(***************************************************************************)
(* Specification SpecRetrieve: one call of retrieve against any store: not *)
(* loaded, loaded, or left by a load that failed validation (index set,    *)
(* lookup of another length).                                              *)
(***************************************************************************)
IndexVectors == { <<1, 0>>, <<0, 1>>, <<1, 1>> }

\* what the embedding capability can do: fail, or return a vector
Embeddings ==
    {[ok |-> FALSE, vector |-> <<0, 0>>]} \cup {[ok |-> TRUE, vector |-> v] : v \in IndexVectors}

\* the lookup record of row i of a store
StoreRecord(i) == ChunkRecord(i, <<"t", "0">>, "PMC1", None, "Intro", i, "x", Some(100 + i))

StoreLookups == {[i \in 1..m |-> StoreRecord(i - 1)] : m \in 0..MaxRows}

StoreIndexes == {None} \cup {Some(FaissIndex(2, vs)) : vs \in SeqsUpTo(IndexVectors, MaxRows)}

RetrieveQueries == SeqsUpTo({"q", " "}, MaxQueryLen)

\* IndexStore.__init__, and no load under way
StoreIdle ==
    /\ s_index = None /\ s_lookup = <<>> /\ s_meta = EmptyMeta
    /\ l_pc = "idle" /\ l_line = 0 /\ l_err = "none"

RetrieveInit ==
    /\ s_index \in StoreIndexes
    /\ s_lookup \in StoreLookups
    /\ s_meta = EmptyMeta
    /\ l_pc = "idle" /\ l_line = 0 /\ l_err = "none"
    /\ r_pc = "ready"
    /\ r_query \in RetrieveQueries
    /\ r_k \in 0..MaxK
    /\ r_search = <<>>
    /\ r_qvec = None
    /\ r_seen = None
    /\ r_index = None /\ r_i = 0
    /\ r_result = NoResult
    /\ embed_calls = 0

RetrieveIdle ==
    /\ r_pc = "idle" /\ r_query = <<>> /\ r_k = 0 /\ r_search = <<>> /\ r_qvec = None
    /\ r_seen = None
    /\ r_index = None /\ r_i = 0
    /\ r_result = NoResult /\ embed_calls = 0

RetrieveCall ==
    /\ r_pc = "ready"
    /\ \E embedding \in Embeddings :
       \E found \in SearchResults(s_index, embedding, r_k) :
          LET out == retrieve(s_index, s_lookup, r_query, r_k, embedding, found)
          IN /\ r_result' = [ok |-> out.ok, err |-> out.err, val |-> out.val]
             /\ embed_calls' = embed_calls + out.encoded
             /\ r_search' = out.found
             /\ r_qvec' = QueryVector(out, embedding)
             /\ r_seen' = Seen(out, s_index, s_lookup)
             /\ r_index' = Searched(out, s_index)
             /\ r_i' = Len(out.found)
    /\ r_pc' = "done"
    /\ UNCHANGED <<r_query, r_k, storeVars>>
    /\ UNCHANGED <<chunkVars, datasetVars, generateVars, fsVars, buildVars, answerVars, apiVars, fetchVars, rivalVars>>

(***************************************************************************)
(* pipeline indexing.py: load_chunks, build_faiss_index, save_artifacts,   *)
(* build_faiss_index_from_chunks                                           *)
(*                                                                         *)
(* A line of a JSONL file is blank, not JSON, a JSON number / null / true / *)
(* false, a JSON string or list, or a JSON object (a dict).                *)
(***************************************************************************)
NoObject == [none |-> 0]
BlankLine == [kind |-> "blank", obj |-> NoObject]
InvalidLine == [kind |-> "invalid", obj |-> NoObject]
\* a JSON number, null, true or false: a value `in` and [] cannot be applied to
ScalarLine == [kind |-> "scalar", obj |-> NoObject]
\* a JSON string or list; holds_text is the value of `"text" in record` for
\* it: "text" is a substring of the string, or an element of the list
IterableLine(holds_text) == [kind |-> "iterable", obj |-> [holds_text |-> holds_text]]
\* json.dumps(d) + "\n"
JsonLine(d) == [kind |-> "object", obj |-> d]

\* dimension of the vectors of the embedding model
ModelDim == 2

\* the embedding model: a fixed unit vector per text
EmbedText(text) == IF Len(text) % 2 = 0 THEN <<1, 0>> ELSE <<0, 1>>

\* embed_texts(texts, ...): ValueError for an empty list, before the model is
\* constructed; else the (N, d) matrix, row i embedding texts[i]
embed_texts(texts) ==
    IF texts = <<>> THEN Raise("Empty texts")
    ELSE Return([i \in 1..Len(texts) |-> EmbedText(texts[i])])

\* embeddings.shape[1] of a matrix given as the sequence of its rows (N >= 1)
Shape1(embeddings) == Len(embeddings[1])

\* build_faiss_index(embeddings): IndexFlatIP(d), d = embeddings.shape[1],
\* with all rows added in order
build_faiss_index(embeddings) == FaissIndex(Shape1(embeddings), embeddings)

RECURSIVE LoadChunkLines(_, _)
\* the loop of load_chunks from the given lines on; val is metas (texts are
\* metas[i]["text"])
LoadChunkLines(lines, metas) ==
    IF lines = <<>> THEN Return(metas)
    ELSE LET line == Head(lines)
         IN IF line.kind = "blank" THEN LoadChunkLines(Tail(lines), metas)
            ELSE IF line.kind = "invalid" THEN LoadChunkLines(Tail(lines), metas)
            \* `"text" not in record` raises TypeError for a number, null, true, false
            ELSE IF line.kind = "scalar" THEN Raise("TypeError")
            \* on a string or list it is a substring / element test; when it
            \* finds "text", record["text"] raises TypeError
            ELSE IF line.kind = "iterable"
            THEN IF ~line.obj.holds_text THEN Raise("Missing text field")
                 ELSE Raise("TypeError")
            ELSE IF "text" \notin DOMAIN line.obj THEN Raise("Missing text field")
            ELSE LoadChunkLines(Tail(lines), Append(metas, line.obj))

load_chunks(file) ==
    IF ~file.exists THEN Raise("FileNotFoundError") ELSE LoadChunkLines(file.lines, <<>>)

\* variant: the rows are written as the metas are, without row_id
LookupRowsPlain(metas) == [i \in 1..Len(metas) |-> JsonLine(metas[i])]

\* the lines save_artifacts writes to lookup.jsonl: {"row_id": i, **meta}
LookupRows(metas) ==
    [i \in 1..Len(metas) |-> JsonLine(DictMerge([row_id |-> i - 1], metas[i]))]

IndexFile(index) == [exists |-> TRUE, valid |-> TRUE, index |-> index]
NoIndexFile == [exists |-> FALSE, valid |-> FALSE, index |-> FaissIndex(0, <<>>)]

MetaFile(data) == [exists |-> TRUE, valid |-> TRUE, data |-> data]
NoMetaFile == [exists |-> FALSE, valid |-> FALSE, data |-> EmptyMeta]
\* index.meta.json as open(meta_path, "w") leaves it: empty, hence not JSON
EmptyMetaFile == [exists |-> TRUE, valid |-> FALSE, data |-> EmptyMeta]
\* index.meta.json holding the JSON text of data followed by the end of a
\* longer text that was in the file: not JSON
TornMetaFile(data) == [exists |-> TRUE, valid |-> FALSE, data |-> data]

\* json.dump(run_meta, f) reaches the file when f is closed, as one write at
\* offset 0 over what the file holds then; longer: the text held is longer
\* than the one written (the texts differ in created_at, source_chunks_path)
WriteMeta(data, held, longer) ==
    IF held = EmptyMetaFile THEN MetaFile(data)
    ELSE IF longer THEN TornMetaFile(data)
    ELSE MetaFile(data)

\* the keys of a record whose values are JSON integers
IntKeys == {"row_id", "section_index", "chunk_index_in_section"}

RECURSIVE Digits(_)
\* len(str(n))
Digits(n) == IF n < 0 THEN 1 + Digits(-n) ELSE IF n < 10 THEN 1 ELSE 1 + Digits(n \div 10)

\* len(json.dumps(v)) for the value v of key k: a quoted string (the model's
\* characters are ASCII and need no escape), an integer, or null
ValueBytes(k, v) ==
    IF k = "text" THEN Len(v) + 2
    ELSE IF k = "chunk_id" THEN (IF v = None THEN 4 ELSE Digits(v[1]))
    ELSE IF k \in IntKeys THEN Digits(v)
    ELSE IF v = "None" THEN 4
    ELSE Len(v) + 2

RECURSIVE ItemsBytes(_, _)
\* the summed lengths of the items '"key": value' of d for the keys ks
ItemsBytes(d, ks) ==
    IF ks = {} THEN 0
    ELSE LET k == CHOOSE x \in ks : TRUE
         IN Len(k) + 4 + ValueBytes(k, d[k]) + ItemsBytes(d, ks \ {k})

\* len(json.dumps(d)): the braces, the items and ", " between them
JsonBytes(d) == 2 + ItemsBytes(d, DOMAIN d) + 2 * (Cardinality(DOMAIN d) - 1)

\* the last n bytes of a written row, its newline included: not JSON
TornLine(n) == [kind |-> "invalid", obj |-> [bytes |-> n]]

\* the bytes of a line save_artifacts left in a file, its newline included
LineBytes(line) ==
    IF line.kind = "object" THEN JsonBytes(line.obj) + 1
    ELSE IF line.kind = "blank" THEN 1
    ELSE line.obj.bytes

RECURSIVE FileBytes(_)
FileBytes(lines) == IF lines = <<>> THEN 0 ELSE LineBytes(Head(lines)) + FileBytes(Tail(lines))

RECURSIVE DropBytes(_, _)
\* the lines of a file from byte offset n on
DropBytes(lines, n) ==
    IF lines = <<>> \/ n = 0 THEN lines
    ELSE LET size == LineBytes(Head(lines))
         IN IF n >= size THEN DropBytes(Tail(lines), n - size)
            ELSE IF size - n = 1 THEN <<BlankLine>> \o Tail(lines)
            ELSE <<TornLine(size - n)>> \o Tail(lines)

\* the rows written through the stream's buffer reach the file when it is
\* closed (the model's rows fit the buffer), as one write at offset 0 over
\* the lines the file holds then
Overwrite(rows, held) == rows \o DropBytes(held, FileBytes(rows))

NoBuildMem == [metas |-> <<>>, index |-> FaissIndex(0, <<>>), run_meta |-> EmptyMeta]

\* a record as build_chunks_dataset writes it
DatasetRecord(text, chunk_id) ==
    DictSet(SectionRecords("PMC1", 0, <<text>>)[1], "chunk_id", Some(chunk_id))

ChunkFileLines ==
    { BlankLine, InvalidLine,
      JsonLine(DatasetRecord(<<"a">>, 0)),
      JsonLine([text |-> <<"a", "a">>]),
      JsonLine([text |-> <<"a">>, row_id |-> 7]),
      JsonLine([pmcid |-> "PMC1"]),
      ScalarLine, IterableLine(FALSE), IterableLine(TRUE) }

\* the artifacts of an earlier build of one chunk
EarlierIndex == IndexFile(FaissIndex(ModelDim, <<EmbedText(<<"z">>)>>))
EarlierLookup == File(LookupRows(<<DatasetRecord(<<"z">>, 0)>>))
EarlierMeta == MetaFile(RunMeta(Some(ModelDim), 1))

NoFiles == fs_index = NoIndexFile /\ fs_lookup = NoFile /\ fs_meta = NoMetaFile

\* out_dir does not exist
FsEmpty == fs_dir = FALSE /\ NoFiles
\* out_dir exists and is empty
FsEmptyDir == fs_dir = TRUE /\ NoFiles
\* out_dir holds the artifacts of an earlier build
FsEarlier ==
    fs_dir = TRUE /\ fs_index = EarlierIndex /\ fs_lookup = EarlierLookup /\ fs_meta = EarlierMeta

\* out_dir and its three files
FsState == [dir |-> fs_dir, index |-> fs_index, lookup |-> fs_lookup, meta |-> fs_meta]

NoFsState == [dir |-> FALSE, index |-> NoIndexFile, lookup |-> NoFile, meta |-> NoMetaFile]

\* variant: an existing index is overwritten without the force flag
build_checks_unprotected(chunks, metric, force, index_exists) ==
    IF ~chunks.exists THEN "Chunks file not found"
    ELSE IF metric # "cosine" THEN "Unsupported metric"
    ELSE "none"

\* variant: any metric is accepted
build_checks_any_metric(chunks, metric, force, index_exists) ==
    IF ~chunks.exists THEN "Chunks file not found"
    ELSE IF ~force /\ index_exists THEN "Index already exists"
    ELSE "none"

\* the three tests build_faiss_index_from_chunks opens with: the error raised, or "none"
build_checks(chunks, metric, force, index_exists) ==
    IF ~chunks.exists THEN "Chunks file not found"
    ELSE IF metric # "cosine" THEN "Unsupported metric"
    ELSE IF ~force /\ index_exists THEN "Index already exists"
    ELSE "none"

BuildInit ==
    /\ b_pc = "ready"
    /\ b_chunks \in {NoFile} \cup {File(ls) : ls \in SeqsUpTo(ChunkFileLines, MaxLines)}
    /\ b_metric \in {"cosine", "l2"}
    /\ b_force \in BOOLEAN
    /\ b_mem = NoBuildMem
    /\ b_err = "none"
    /\ (FsEmpty \/ FsEmptyDir \/ FsEarlier)
    /\ b_before = FsState

BuildIdle ==
    /\ b_pc = "idle" /\ b_chunks = NoFile /\ b_metric = "cosine" /\ b_force = FALSE
    /\ b_mem = NoBuildMem /\ b_err = "none" /\ b_before = NoFsState

BuildFrame == UNCHANGED <<chunkVars, datasetVars, generateVars, storeVars, retrieveVars, answerVars, apiVars, fetchVars, rivalVars>>

BuildFail(e) == b_pc' = "failed" /\ b_err' = e /\ UNCHANGED <<b_mem>>

\* the precondition tests, load_chunks, embed_texts and build_faiss_index:
\* everything up to the call of save_artifacts
BuildPrepare ==
    /\ b_pc = "ready"
    /\ IF build_checks(b_chunks, b_metric, b_force, fs_index.exists) # "none"
       THEN BuildFail(build_checks(b_chunks, b_metric, b_force, fs_index.exists))
       ELSE LET loaded == load_chunks(b_chunks)
            IN IF ~loaded.ok THEN BuildFail(loaded.err)
               ELSE IF loaded.val = <<>> THEN BuildFail("No chunks found")
               ELSE LET texts == [i \in 1..Len(loaded.val) |-> loaded.val[i].text]
                        embedded == embed_texts(texts)
                        embeddings == embedded.val
                    IN IF ~embedded.ok THEN BuildFail(embedded.err)
                       ELSE /\ b_mem' = [metas |-> loaded.val,
                                         index |-> build_faiss_index(embeddings),
                                         run_meta |-> RunMeta(Some(Shape1(embeddings)),
                                                              Len(texts))]
                            /\ b_pc' = "prepared"
                            /\ b_err' = "none"
    /\ UNCHANGED <<b_chunks, b_metric, b_force, b_before, fsVars>>
    /\ BuildFrame

\* save_artifacts, step 1: out_dir.mkdir and faiss.write_index
SaveIndex ==
    /\ b_pc = "prepared"
    /\ fs_dir' = TRUE
    /\ fs_index' = IndexFile(b_mem.index)
    /\ b_pc' = "index_saved"
    /\ UNCHANGED <<fs_lookup, fs_meta, b_chunks, b_metric, b_force, b_mem, b_err, b_before>>
    /\ BuildFrame

\* save_artifacts, step 2 begins: open(lookup_path, "w") truncates the file
SaveLookupOpen ==
    /\ b_pc = "index_saved"
    /\ fs_lookup' = File(<<>>)
    /\ b_pc' = "lookup_open"
    /\ UNCHANGED <<fs_dir, fs_index, fs_meta, b_chunks, b_metric, b_force, b_mem, b_err, b_before>>
    /\ BuildFrame

\* save_artifacts, step 2 ends: the rows are written and the file is closed
SaveLookup ==
    /\ b_pc = "lookup_open"
    /\ fs_lookup' = File(Overwrite(LookupRows(b_mem.metas), fs_lookup.lines))
    /\ b_pc' = "lookup_saved"
    /\ UNCHANGED <<fs_dir, fs_index, fs_meta, b_chunks, b_metric, b_force, b_mem, b_err, b_before>>
    /\ BuildFrame

\* save_artifacts, step 3 begins: open(meta_path, "w") truncates the file
SaveMetaOpen ==
    /\ b_pc = "lookup_saved"
    /\ fs_meta' = EmptyMetaFile
    /\ b_pc' = "meta_open"
    /\ UNCHANGED <<fs_dir, fs_index, fs_lookup, b_chunks, b_metric, b_force, b_mem, b_err, b_before>>
    /\ BuildFrame

\* save_artifacts, step 3 ends: json.dump, the file is closed and the build
\* returns the three paths
SaveMeta ==
    /\ b_pc = "meta_open"
    /\ \E longer \in BOOLEAN : fs_meta' = WriteMeta(b_mem.run_meta, fs_meta, longer)
    /\ b_pc' = "done"
    /\ UNCHANGED <<fs_dir, fs_index, fs_lookup, b_chunks, b_metric, b_force, b_mem, b_err, b_before>>
    /\ BuildFrame

BuildNext == BuildPrepare \/ SaveIndex \/ SaveLookupOpen \/ SaveLookup \/ SaveMetaOpen \/ SaveMeta

(***************************************************************************)
(* Specification SpecRebuild: any sequence of builds into one out_dir,     *)
(* each of which may be cut short by an I/O error between two file writes. *)
(***************************************************************************)
RebuildChunkFiles ==
    { NoFile, File(<<JsonLine(DatasetRecord(<<"a">>, 0))>>),
      File(<<JsonLine(DatasetRecord(<<"a">>, 0)), JsonLine(DatasetRecord(<<"a", "a">>, 1))>>) }

RebuildInit ==
    /\ b_pc = "ready"
    /\ b_chunks \in RebuildChunkFiles
    /\ b_metric \in {"cosine", "l2"}
    /\ b_force \in BOOLEAN
    /\ b_mem = NoBuildMem
    /\ b_err = "none"
    /\ (FsEmpty \/ FsEarlier)
    /\ b_before = FsState

\* open(lookup_path, "w") or open(meta_path, "w") raises OSError
SaveInterrupted ==
    /\ b_pc \in {"index_saved", "lookup_saved"}
    /\ b_pc' = "failed"
    /\ b_err' = "OSError"
    /\ UNCHANGED <<b_chunks, b_metric, b_force, b_mem, b_before, fsVars>>
    /\ BuildFrame

\* the next invocation of build_faiss_index_from_chunks on the same out_dir
BuildAgain ==
    /\ b_pc \in {"done", "failed"}
    /\ b_pc' = "ready"
    /\ b_chunks' \in RebuildChunkFiles
    /\ b_metric' \in {"cosine", "l2"}
    /\ b_force' \in BOOLEAN
    /\ b_mem' = NoBuildMem
    /\ b_err' = "none"
    /\ b_before' = FsState
    /\ UNCHANGED fsVars
    /\ BuildFrame

RebuildNext ==
    BuildPrepare \/ SaveIndex \/ SaveLookupOpen \/ SaveLookup \/ SaveMetaOpen \/ SaveMeta \/ SaveInterrupted \/ BuildAgain

(***************************************************************************)
(* service indexing.py: IndexStore.load, IndexStore._validate              *)
(***************************************************************************)
RequiredFields ==
    {"row_id", "text", "pmcid", "section_title", "chunk_index_in_section", "source_xml"}

\* the ChunkRecord made of a lookup dict that has the required fields;
\* record_dict.get(key) is None for a missing key and for a JSON null
RecordOfDict(d) ==
    ChunkRecord(d.row_id, d.text, d.pmcid,
                IF "pmid" \in DOMAIN d /\ d.pmid # "None" THEN Some(d.pmid) ELSE None,
                d.section_title, d.chunk_index_in_section, d.source_xml,
                IF "chunk_id" \in DOMAIN d THEN d.chunk_id ELSE None)

\* a lookup line that is not JSON, not an object, or lacks a required field
BadLookupLine(line) ==
    \/ line.kind \in {"invalid", "scalar", "iterable"}
    \/ line.kind = "object" /\ ~(RequiredFields \subseteq DOMAIN line.obj)

RECURSIVE ParseLookupLinesLenient(_, _)
\* variant: lines that cannot be turned into a record are skipped
ParseLookupLinesLenient(lines, lookup) ==
    IF lines = <<>> THEN Return(lookup)
    ELSE IF Head(lines).kind = "blank" \/ BadLookupLine(Head(lines))
    THEN ParseLookupLinesLenient(Tail(lines), lookup)
    ELSE ParseLookupLinesLenient(Tail(lines), Append(lookup, RecordOfDict(Head(lines).obj)))

RECURSIVE ParseLookupLines(_, _)
\* the loop over the lookup lines, appending to self.lookup; on an error val
\* is the lookup as the loop leaves it
ParseLookupLines(lines, lookup) ==
    IF lines = <<>> THEN Return(lookup)
    ELSE LET line == Head(lines)
         IN IF line.kind = "blank" THEN ParseLookupLines(Tail(lines), lookup)
            ELSE IF line.kind = "invalid"
            THEN [ok |-> FALSE, err |-> "Invalid lookup record", val |-> lookup]
            \* record_dict["row_id"] on a value that is not a dict: TypeError
            ELSE IF line.kind \in {"scalar", "iterable"}
            THEN [ok |-> FALSE, err |-> "Failed to read lookup file", val |-> lookup]
            ELSE IF ~(RequiredFields \subseteq DOMAIN line.obj)
            THEN [ok |-> FALSE, err |-> "Invalid lookup record", val |-> lookup]
            ELSE ParseLookupLines(Tail(lines), Append(lookup, RecordOfDict(line.obj)))

\* step 3 of load as a whole: self.lookup = [] and the loop over the lines
read_lookup(lines) == ParseLookupLines(lines, <<>>)

\* variant: the dimension declared by the metadata is not compared
validate_counts_only(index, lookup, meta) ==
    IF index = None THEN "Index not loaded"
    ELSE IF ntotal(index[1]) # Len(lookup) THEN "Consistency error"
    ELSE "none"

\* IndexStore._validate: the error it raises, "none" if it returns
validate(index, lookup, meta) ==
    IF index = None THEN "Index not loaded"
    ELSE IF ntotal(index[1]) # Len(lookup) THEN "Consistency error"
    ELSE IF meta.embedding_dim # None /\ index[1].d # meta.embedding_dim[1]
    THEN "Dimension mismatch"
    ELSE "none"

LoadFrame ==
    UNCHANGED <<chunkVars, datasetVars, generateVars, retrieveVars, fsVars, buildVars, answerVars, apiVars, fetchVars, rivalVars>>

LoadFail(e) == l_pc' = "failed" /\ l_err' = e

\* the three existence tests, then step 1: the metadata
LoadMeta ==
    /\ l_pc = "ready"
    /\ IF ~fs_index.exists \/ ~fs_lookup.exists \/ ~fs_meta.exists
       THEN LoadFail("FileNotFoundError") /\ UNCHANGED s_meta
       ELSE IF ~fs_meta.valid
       THEN LoadFail("Failed to parse meta JSON") /\ UNCHANGED s_meta
       ELSE s_meta' = fs_meta.data /\ l_pc' = "meta_loaded" /\ UNCHANGED l_err
    /\ UNCHANGED <<s_index, s_lookup, l_line>>
    /\ LoadFrame

\* step 2: faiss.read_index
LoadIndex ==
    /\ l_pc = "meta_loaded"
    /\ IF ~fs_index.valid
       THEN LoadFail("Failed to load FAISS index") /\ UNCHANGED s_index
       ELSE s_index' = Some(fs_index.index) /\ l_pc' = "index_loaded" /\ UNCHANGED l_err
    /\ UNCHANGED <<s_lookup, s_meta, l_line>>
    /\ LoadFrame

\* step 3 begins: self.lookup = [] and the lookup file is opened
LoadLookupOpen ==
    /\ l_pc = "index_loaded"
    /\ s_lookup' = <<>>
    /\ l_line' = 0
    /\ l_pc' = IF fs_lookup.lines = <<>> THEN "lookup_loaded" ELSE "lookup_open"
    /\ UNCHANGED <<s_index, s_meta, l_err>>
    /\ LoadFrame

\* one iteration of the loop: the next line of the file is skipped, appended
\* to self.lookup as a record, or ends load with an error; after the last
\* line the file is closed
LoadLookup ==
    /\ l_pc = "lookup_open"
    /\ l_line < Len(fs_lookup.lines)
    /\ LET parsed == ParseLookupLines(<<fs_lookup.lines[l_line + 1]>>, s_lookup)
       IN /\ s_lookup' = parsed.val
          /\ l_line' = l_line + 1
          /\ IF ~parsed.ok THEN LoadFail(parsed.err)
             ELSE /\ l_pc' = IF l_line + 1 = Len(fs_lookup.lines) THEN "lookup_loaded"
                              ELSE "lookup_open"
                  /\ UNCHANGED l_err
    /\ UNCHANGED <<s_index, s_meta>>
    /\ LoadFrame

\* self._validate()
LoadValidate ==
    /\ l_pc = "lookup_loaded"
    /\ LET e == validate(s_index, s_lookup, s_meta)
       IN IF e = "none" THEN l_pc' = "done" /\ UNCHANGED l_err ELSE LoadFail(e)
    /\ UNCHANGED <<s_index, s_lookup, s_meta, l_line>>
    /\ LoadFrame

LoadNext == LoadMeta \/ LoadIndex \/ LoadLookupOpen \/ LoadLookup \/ LoadValidate

(***************************************************************************)
(* Specification SpecLoad: one load() of a fresh IndexStore over any three *)
(* artifact files.                                                         *)
(***************************************************************************)
\* a lookup row with every field the pipeline writes
LookupRow(row_id) == JsonLine(DictMerge([row_id |-> row_id], DatasetRecord(<<"a">>, row_id)))

LookupFileLines ==
    { BlankLine, InvalidLine, ScalarLine, IterableLine(TRUE),
      LookupRow(0), LookupRow(1),
      JsonLine(DictSet(LookupRow(0).obj, "chunk_id", None)),
      JsonLine([row_id |-> 0, text |-> <<"a">>, pmcid |-> "PMC1", section_title |-> "SECTION",
                chunk_index_in_section |-> 0, source_xml |-> "PMC1"]),
      JsonLine([row_id |-> 0, text |-> <<"a">>]) }

\* the unit vector along the first axis of dimension d
UnitVector(d) == [i \in 1..d |-> IF i = 1 THEN 1 ELSE 0]

IndexFiles ==
    { NoIndexFile, [exists |-> TRUE, valid |-> FALSE, index |-> FaissIndex(0, <<>>)] }
        \cup { IndexFile(FaissIndex(d, [i \in 1..n |-> UnitVector(d)])) :
                 d \in {ModelDim, ModelDim + 1}, n \in 0..MaxRows }

MetaFiles ==
    { NoMetaFile, EmptyMetaFile,
      MetaFile(EmptyMeta), MetaFile(RunMeta(Some(ModelDim), 1)),
      MetaFile(RunMeta(Some(ModelDim + 1), 1)) }

LoadInit ==
    /\ fs_index \in IndexFiles
    /\ fs_lookup \in {NoFile} \cup {File(ls) : ls \in SeqsUpTo(LookupFileLines, MaxLines)}
    /\ fs_meta \in MetaFiles
    /\ fs_dir = TRUE
    /\ s_index = None /\ s_lookup = <<>> /\ s_meta = EmptyMeta
    /\ l_pc = "ready" /\ l_line = 0 /\ l_err = "none"

(***************************************************************************)
(* service.py: RAGService.answer                                           *)
(***************************************************************************)
NoAnswer == [ok |-> FALSE, err |-> "none", val |-> EmptyAnswer]

\* variant: a failure of retrieve is swallowed and generation goes on
after_retrieve_swallowed(retrieved) == "retrieved"

\* where answer stands once retriever.retrieve has returned or raised
after_retrieve(retrieved) == IF retrieved.ok THEN "retrieved" ELSE "failed"

AnswerFrame == UNCHANGED <<chunkVars, datasetVars, storeVars, fsVars, buildVars, apiVars, fetchVars, rivalVars>>

\* chunks = self.retriever.retrieve(query, k=k)
AnswerRetrieve ==
    /\ a_pc = "ready"
    /\ \E embedding \in Embeddings :
       \E found \in SearchResults(s_index, embedding, r_k) :
          LET out == retrieve(s_index, s_lookup, r_query, r_k, embedding, found)
          IN /\ r_result' = [ok |-> out.ok, err |-> out.err, val |-> out.val]
             /\ embed_calls' = embed_calls + out.encoded
             /\ r_search' = out.found
             /\ r_qvec' = QueryVector(out, embedding)
             /\ r_seen' = Seen(out, s_index, s_lookup)
             /\ r_index' = Searched(out, s_index)
             /\ r_i' = Len(out.found)
             /\ a_pc' = after_retrieve(out)
             /\ a_result' = IF out.ok THEN a_result
                            ELSE [ok |-> FALSE, err |-> out.err, val |-> EmptyAnswer]
    /\ r_pc' = "done"
    /\ UNCHANGED <<r_query, r_k, generateVars>>
    /\ AnswerFrame

\* answer = self.generator.generate(query, chunks); return answer
AnswerGenerate ==
    /\ a_pc = "retrieved"
    /\ \E completion \in AnswerCompletions :
          LET out == generate(r_query, r_result.val, completion)
          IN /\ g_result' = out
             /\ llm_calls' = llm_calls + out.calls
             /\ g_raw' = IF out.calls > 0 THEN completion.text ELSE <<>>
             /\ g_completion' = Completed(out, completion)
             /\ a_result' = [ok |-> out.ok, err |-> out.err, val |-> out.val]
             /\ a_pc' = IF out.ok THEN "done" ELSE "failed"
    /\ g_pc' = "done"
    /\ g_query' = r_query
    /\ g_chunks' = r_result.val
    /\ UNCHANGED retrieveVars
    /\ AnswerFrame

AnswerNext == AnswerRetrieve \/ AnswerGenerate

AnswerIdle == a_pc = "idle" /\ a_result = NoAnswer

(***************************************************************************)
(* Specification SpecAnswer: one call of answer against a store that is    *)
(* not loaded or holds an index with one lookup record per vector.         *)
(***************************************************************************)
AnswerInit ==
    /\ s_index \in StoreIndexes
    /\ s_lookup = (IF s_index = None THEN <<>>
                   ELSE [i \in 1..ntotal(s_index[1]) |-> StoreRecord(i - 1)])
    /\ s_meta = EmptyMeta
    /\ l_pc = "idle" /\ l_line = 0 /\ l_err = "none"
    /\ r_pc = "idle"
    /\ r_query \in RetrieveQueries
    /\ r_k \in 0..MaxK
    /\ r_search = <<>>
    /\ r_qvec = None
    /\ r_seen = None
    /\ r_index = None /\ r_i = 0
    /\ r_result = NoResult
    /\ embed_calls = 0
    /\ a_pc = "ready"
    /\ a_result = NoAnswer

(***************************************************************************)
(* Specification SpecStore: one load() of a fresh IndexStore over any      *)
(* three artifact files, then one retrieve against that store, whether the *)
(* load succeeded or raised.                                               *)
(***************************************************************************)
StoreQueries == { <<"q">>, <<" ">> }

StoreFileLines == { InvalidLine, LookupRow(0), LookupRow(1) }

StoreInit ==
    /\ fs_index \in IndexFiles
    /\ fs_lookup \in {NoFile} \cup {File(ls) : ls \in SeqsUpTo(StoreFileLines, MaxLines)}
    /\ fs_meta \in MetaFiles
    /\ fs_dir = TRUE
    /\ s_index = None /\ s_lookup = <<>> /\ s_meta = EmptyMeta
    /\ l_pc = "ready" /\ l_line = 0 /\ l_err = "none"

\* Retriever.retrieve on the store a finished load() has left
StoreRetrieve ==
    /\ l_pc \in {"done", "failed"}
    /\ r_pc = "idle"
    /\ \E query \in StoreQueries, k \in {1, MaxK}, embedding \in Embeddings :
       \E found \in SearchResults(s_index, embedding, k) :
          LET out == retrieve(s_index, s_lookup, query, k, embedding, found)
          IN /\ r_query' = query
             /\ r_k' = k
             /\ r_result' = [ok |-> out.ok, err |-> out.err, val |-> out.val]
             /\ embed_calls' = embed_calls + out.encoded
             /\ r_search' = out.found
             /\ r_qvec' = QueryVector(out, embedding)
             /\ r_seen' = Seen(out, s_index, s_lookup)
             /\ r_index' = Searched(out, s_index)
             /\ r_i' = Len(out.found)
    /\ r_pc' = "done"
    /\ UNCHANGED storeVars
    /\ UNCHANGED <<chunkVars, datasetVars, generateVars, fsVars, buildVars, answerVars, apiVars, fetchVars, rivalVars>>

StoreNext == LoadMeta \/ LoadIndex \/ LoadLookupOpen \/ LoadLookup \/ LoadValidate \/ StoreRetrieve

(***************************************************************************)
(* llm/factory.py, config.py and main.py: start-up (lifespan) and the two  *)
(* query-facing endpoints.  A request is served in steps: the handler's    *)
(* tests, the call of answer or retrieve (the actions above), the response.*)
(* embed_calls and llm_calls count from the moment the request arrived.    *)
(***************************************************************************)
ALLOWED_PROVIDERS == {"openai", "anthropic", "dummy"}

TOP_K == 5

Client(provider) == [ok |-> TRUE, err |-> "none", val |-> provider]
NoClient(e) == [ok |-> FALSE, err |-> e, val |-> "none"]

\* OpenAIClient.__init__: the key is read from the environment
OpenAIClient(keys) ==
    IF "openai" \in keys THEN Client("openai") ELSE NoClient("ValueError")

get_llm_client(provider, keys) ==
    IF provider = "dummy" THEN Client("dummy")
    ELSE IF provider = "openai" THEN OpenAIClient(keys)
    ELSE IF provider = "anthropic" THEN NoClient("NotImplementedError")
    ELSE NoClient("ValueError")

\* outcome of lifespan up to its yield; called: get_llm_client was reached
Started(ok, called) == [ok |-> ok, service |-> ok, called |-> called]

\* variant: a failed load() leaves a degraded service in place
lifespan_degraded(load_ok, retriever_ok, client) ==
    IF ~load_ok THEN [ok |-> FALSE, service |-> TRUE, called |-> FALSE]
    ELSE IF ~retriever_ok THEN Started(FALSE, FALSE)
    ELSE IF ~client.ok THEN Started(FALSE, TRUE)
    ELSE Started(TRUE, TRUE)

\* lifespan after index_store.load() has returned (load_ok) or raised
lifespan(load_ok, retriever_ok, client) ==
    IF ~load_ok THEN Started(FALSE, FALSE)
    ELSE IF ~retriever_ok THEN Started(FALSE, FALSE)
    ELSE IF ~client.ok THEN Started(FALSE, TRUE)
    ELSE Started(TRUE, TRUE)

\* the tests of query_rag_service before the pipeline: the status it raises, 0 for none
query_rag_service(service, question) ==
    IF ~service THEN 503
    ELSE IF question = <<>> THEN 400
    ELSE 0

\* the tests of retrieve_only before the pipeline
retrieve_only(service, query) ==
    IF ~service THEN 503
    ELSE IF strip(query) = <<>> THEN 400
    ELSE 0

\* the try block of both handlers: the value is returned, any exception becomes 500
respond(ok) == IF ok THEN 200 ELSE 500

ApiIdle ==
    /\ m_pc = "idle" /\ rag_service = FALSE /\ m_provider = "dummy" /\ m_keys = {}
    /\ m_client = NoClient("none")
    /\ h_pc = "idle" /\ h_endpoint = "none" /\ h_query = <<>> /\ h_unset = FALSE
    /\ h_status = 0

StartupVars == <<m_pc, rag_service, m_provider, m_keys, m_client>>
RequestVars == <<h_pc, h_endpoint, h_query, h_unset, h_status>>

\* import of ad_rag_service.config, then lifespan up to IndexStore(...)
ConfigImport ==
    /\ m_pc = "importing"
    /\ IF m_provider \notin ALLOWED_PROVIDERS
       THEN m_pc' = "failed" /\ UNCHANGED storeVars
       ELSE /\ m_pc' = "starting" /\ l_pc' = "ready"
            /\ UNCHANGED <<s_index, s_lookup, s_meta, l_line, l_err>>
    /\ UNCHANGED <<rag_service, m_provider, m_keys, m_client, RequestVars>>
    /\ UNCHANGED <<chunkVars, datasetVars, generateVars, retrieveVars, fsVars, buildVars, answerVars, fetchVars, rivalVars>>

\* lifespan from the return of load() to the yield, or to the RuntimeError
LifespanFinish ==
    /\ m_pc = "starting"
    /\ l_pc \in {"done", "failed"}
    /\ \E retriever_ok \in BOOLEAN :
          LET client == get_llm_client(m_provider, m_keys)
              out == lifespan(l_pc = "done", retriever_ok, client)
          IN /\ rag_service' = out.service
             /\ m_pc' = IF out.ok THEN "serving" ELSE "failed"
             /\ m_client' = IF out.called THEN client ELSE m_client
    /\ UNCHANGED <<m_provider, m_keys, RequestVars>>
    /\ UNCHANGED <<chunkVars, datasetVars, generateVars, storeVars, retrieveVars, fsVars, buildVars, answerVars, fetchVars, rivalVars>>

ApiQuestions == { <<>>, <<" ">>, <<"q">>, <<" ", "q">> }

\* the pipeline variables as they are when a request arrives
PipelineReset ==
    /\ r_search' = <<>> /\ r_qvec' = None /\ r_result' = NoResult /\ embed_calls' = 0
    /\ r_seen' = None
    /\ r_index' = None /\ r_i' = 0
    /\ g_pc' = "idle" /\ g_query' = <<>> /\ g_chunks' = <<>> /\ g_raw' = <<>>
    /\ g_result' = GenerateFailed("none", 0) /\ llm_calls' = 0 /\ g_completion' = "none"
    /\ a_result' = NoAnswer

\* POST /query up to the call of rag_service.answer(request.question)
ApiQuery ==
    /\ h_pc \in {"idle", "responded"}
    /\ \E question \in ApiQuestions :
          LET st == query_rag_service(rag_service, question)
          IN /\ h_endpoint' = "/query" /\ h_query' = question
             /\ h_unset' = ~rag_service
             /\ h_status' = st
             /\ h_pc' = IF st = 0 THEN "answering" ELSE "responded"
             /\ a_pc' = IF st = 0 THEN "ready" ELSE "idle"
             /\ r_query' = IF st = 0 THEN question ELSE <<>>
             /\ r_k' = IF st = 0 THEN TOP_K ELSE 0
    /\ r_pc' = "idle"
    /\ PipelineReset
    /\ UNCHANGED StartupVars
    /\ UNCHANGED <<chunkVars, datasetVars, storeVars, fsVars, buildVars, fetchVars, rivalVars>>

\* POST /query from the return of answer, or its exception, to the response
ApiQueryRespond ==
    /\ h_pc = "answering"
    /\ a_pc \in {"done", "failed"}
    /\ h_status' = respond(a_result.ok)
    /\ h_pc' = "responded"
    /\ UNCHANGED <<StartupVars, h_endpoint, h_query, h_unset>>
    /\ UNCHANGED <<chunkVars, datasetVars, generateVars, storeVars, retrieveVars, fsVars, buildVars, answerVars, fetchVars, rivalVars>>

\* POST /retrieve up to the call of rag_service.retriever.retrieve(query, k)
ApiRetrieve ==
    /\ h_pc \in {"idle", "responded"}
    /\ \E query \in ApiQuestions, k \in {1, MaxK} :
          LET st == retrieve_only(rag_service, query)
          IN /\ h_endpoint' = "/retrieve" /\ h_query' = query
             /\ h_unset' = ~rag_service
             /\ h_status' = st
             /\ h_pc' = IF st = 0 THEN "retrieving" ELSE "responded"
             /\ r_pc' = IF st = 0 THEN "ready" ELSE "idle"
             /\ r_query' = IF st = 0 THEN query ELSE <<>>
             /\ r_k' = IF st = 0 THEN k ELSE 0
    /\ a_pc' = "idle"
    /\ PipelineReset
    /\ UNCHANGED StartupVars
    /\ UNCHANGED <<chunkVars, datasetVars, storeVars, fsVars, buildVars, fetchVars, rivalVars>>

\* POST /retrieve from the return of retrieve, or its exception, to the response
ApiRetrieveRespond ==
    /\ h_pc = "retrieving"
    /\ r_pc = "done"
    /\ h_status' = respond(r_result.ok)
    /\ h_pc' = "responded"
    /\ UNCHANGED <<StartupVars, h_endpoint, h_query, h_unset>>
    /\ UNCHANGED <<chunkVars, datasetVars, generateVars, storeVars, retrieveVars, fsVars, buildVars, answerVars, fetchVars, rivalVars>>

ApiNext ==
    \/ ConfigImport \/ LoadMeta \/ LoadIndex \/ LoadLookupOpen \/ LoadLookup \/ LoadValidate \/ LifespanFinish
    \/ ApiQuery \/ AnswerRetrieve \/ AnswerGenerate \/ ApiQueryRespond
    \/ ApiRetrieve \/ RetrieveCall \/ ApiRetrieveRespond

(***************************************************************************)
(* Specification SpecApi: the process starts over any artifact files and   *)
(* any provider configuration; requests arrive at any moment, one at a     *)
(* time.                                                                   *)
(***************************************************************************)
ApiIndexFiles ==
    { NoIndexFile, IndexFile(FaissIndex(ModelDim, << <<1, 0>> >>)),
      IndexFile(FaissIndex(ModelDim, << <<1, 0>>, <<0, 1>> >>)) }

ApiLookupFiles == { File(<<InvalidLine>>), File(<<LookupRow(0), LookupRow(1)>>) }

ApiMetaFiles == { NoMetaFile, MetaFile(EmptyMeta) }

ApiInit ==
    /\ fs_index \in ApiIndexFiles
    /\ fs_lookup \in ApiLookupFiles
    /\ fs_meta \in ApiMetaFiles
    /\ fs_dir = TRUE
    /\ m_pc = "importing" /\ rag_service = FALSE
    /\ m_provider \in ALLOWED_PROVIDERS \cup {"other"}
    /\ m_keys \in SUBSET {"openai", "anthropic"}
    /\ m_client = NoClient("none")
    /\ h_pc = "idle" /\ h_endpoint = "none" /\ h_query = <<>> /\ h_unset = FALSE
    /\ h_status = 0

(***************************************************************************)
(* ingestion.py: fetch_pmc_corpus.  Link resolution (get_pmcid_from_pmid)  *)
(* and fetching (fetch_pmc_xml) are external: each iteration draws what    *)
(* they return, and whether a manifest write succeeds.                     *)
(***************************************************************************)
Counts(downloaded, skipped, failed, no_link) ==
    [downloaded |-> downloaded, skipped |-> skipped, failed |-> failed, no_link |-> no_link]

\* counts[key] += 1
Increment(counts, key) == [counts EXCEPT ![key] = @ + 1]

\* variant of the loop's first test: the target must be exceeded, not met
target_met_late(counts, target_n) == counts.downloaded + counts.skipped > target_n

\* if counts["downloaded"] + counts["skipped"] >= target_n: break
target_met(counts, target_n) == counts.downloaded + counts.skipped >= target_n

\* outcome of one iteration of the loop
Iteration(counts, files, event, fetched, raised) ==
    [counts |-> counts, files |-> files, event |-> event, fetched |-> fetched, raised |-> raised]

\* the except clause, entered when the manifest write of the try block raises
Written(counts, manifest, written) ==
    IF manifest /\ ~written THEN Increment(counts, "failed") ELSE counts

\* fetch_pmc_xml: efetch and handle.read, then out_path.write_bytes, any
\* exception giving False.  fetched: efetch and read return; write: what
\* write_bytes does, "ok", "not_opened" (it raises and leaves no file) or
\* "opened" (it raises once the file is created).  created: out_path exists
\* as a result
fetch_pmc_xml(fetched, write) ==
    [success |-> fetched /\ write = "ok", created |-> fetched /\ write \in {"ok", "opened"}]

WriteOutcomes == {"ok", "not_opened", "opened"}

\* the body of the loop for one PMID: pmcid is what get_pmcid_from_pmid returns,
\* fetch what fetch_pmc_xml does if called, written whether _write_jsonl succeeds
process_pmid(counts, files, resume, manifest, pmcid, fetch, written) ==
    LET raised == manifest /\ ~written
        success == fetch.success IN
    IF pmcid = None
    THEN Iteration(Written(Increment(counts, "no_link"), manifest, written),
                   files, "no_pmc_link", FALSE, raised)
    ELSE IF resume /\ pmcid[1] \in files
    THEN Iteration(Written(Increment(counts, "skipped"), manifest, written),
                   files, "skipped", FALSE, raised)
    ELSE IF success
    THEN Iteration(Written(Increment(counts, "downloaded"), manifest, written),
                   files \cup {pmcid[1]}, "downloaded", TRUE, raised)
    ELSE Iteration(Written(Increment(counts, "failed"), manifest, written),
                   IF fetch.created THEN files \cup {pmcid[1]} ELSE files,
                   "fetch_failed", TRUE, raised)

FetchIdle ==
    /\ f_pc = "idle" /\ f_pmids = 0 /\ f_i = 0 /\ f_target = 0
    /\ f_resume = FALSE /\ f_manifest = FALSE
    /\ f_counts = Counts(0, 0, 0, 0) /\ f_files = {} /\ f_log = <<>>

FetchFrame ==
    UNCHANGED <<chunkVars, datasetVars, generateVars, storeVars, retrieveVars, fsVars, buildVars, answerVars, apiVars, rivalVars>>

PmcIds == {1, 2}

\* one iteration of `for pmid in pmids` that passes the target test
FetchArticle ==
    /\ f_pc = "loop"
    /\ f_i < f_pmids
    /\ ~target_met(f_counts, f_target)
    /\ \E pmcid \in {None} \cup {Some(n) : n \in PmcIds}, fetched \in BOOLEAN,
          write \in WriteOutcomes, written \in BOOLEAN, rewritten \in BOOLEAN :
          LET out == process_pmid(f_counts, f_files, f_resume, f_manifest,
                                  pmcid, fetch_pmc_xml(fetched, write), written)
          IN /\ f_counts' = out.counts
             /\ f_files' = out.files
             /\ f_log' = Append(f_log, [event |-> out.event, fetched |-> out.fetched,
                                         existed |-> pmcid # None /\ pmcid[1] \in f_files,
                                         met |-> f_counts.downloaded + f_counts.skipped >= f_target])
             /\ f_pc' = IF out.raised /\ ~rewritten THEN "raised" ELSE "loop"
    /\ f_i' = f_i + 1
    /\ UNCHANGED <<f_pmids, f_target, f_resume, f_manifest>>
    /\ FetchFrame

\* the break, or the end of the list: return counts
FetchReturn ==
    /\ f_pc = "loop"
    /\ f_i >= f_pmids \/ target_met(f_counts, f_target)
    /\ f_pc' = "done"
    /\ UNCHANGED <<f_pmids, f_i, f_target, f_resume, f_manifest, f_counts, f_files, f_log>>
    /\ FetchFrame

FetchNext == FetchArticle \/ FetchReturn

(***************************************************************************)
(* Specification SpecFetch: one call of fetch_pmc_corpus, at the start of  *)
(* its loop, for any number of PMIDs found, any target and any files       *)
(* already in out_dir.                                                     *)
(***************************************************************************)
FetchInit ==
    /\ f_pc = "loop"
    /\ f_pmids \in 0..MaxPmids
    /\ f_i = 0
    /\ f_target \in 0..MaxTarget
    /\ f_resume \in BOOLEAN
    /\ f_manifest \in BOOLEAN
    /\ f_counts = Counts(0, 0, 0, 0)
    /\ f_files \in SUBSET PmcIds
    /\ f_log = <<>>

(***************************************************************************)
(* Specification SpecReload: load() is invoked again on a store that holds *)
(* an earlier successful load, after the artifacts on disk were replaced   *)
(* by a later build, while a retrieve call runs in another thread, the     *)
(* steps of the two interleaving.  The earlier build's vectors are all     *)
(* <<1, 0>> and its texts "a", the later build's <<0, 1>> and "b".         *)
(***************************************************************************)
ReloadIndex(vector, n) == FaissIndex(ModelDim, [i \in 1..n |-> vector])

ReloadLookupFile(text, n) ==
    File([i \in 1..n |-> JsonLine(DictMerge([row_id |-> i - 1], DatasetRecord(text, i - 1)))])

ReloadInit ==
    /\ \E n \in 1..MaxRows :
          /\ s_index = Some(ReloadIndex(<<1, 0>>, n))
          /\ s_lookup = read_lookup(ReloadLookupFile(<<"a">>, n).lines).val
    /\ s_meta = EmptyMeta
    /\ \E n \in 1..MaxRows :
          /\ fs_index = IndexFile(ReloadIndex(<<0, 1>>, n))
          /\ fs_lookup = ReloadLookupFile(<<"b">>, n)
    /\ fs_meta = MetaFile(EmptyMeta)
    /\ fs_dir = TRUE
    /\ l_pc = "ready" /\ l_line = 0 /\ l_err = "none"

ReloadFrame ==
    UNCHANGED <<chunkVars, datasetVars, generateVars, fsVars, buildVars, answerVars, apiVars, fetchVars, rivalVars>>

\* retrieve ends: it returns, or raises e
ReloadEnd(res) == r_pc' = "done" /\ r_result' = [ok |-> res.ok, err |-> res.err, val |-> res.val]

\* Retriever.retrieve is called: the blank test and embedder.encode
ReloadRetrieve ==
    /\ r_pc = "idle"
    /\ \E query \in StoreQueries, k \in {1, MaxK}, embedding \in Embeddings :
          /\ r_query' = query
          /\ r_k' = k
          /\ IF strip(query) = <<>>
             THEN ReloadEnd(Return(<<>>)) /\ UNCHANGED <<embed_calls, r_qvec>>
             ELSE /\ embed_calls' = embed_calls + 1
                  /\ IF ~embedding.ok
                     THEN ReloadEnd(Raise("EmbeddingError")) /\ UNCHANGED r_qvec
                     ELSE /\ r_qvec' = Some(embedding.vector)
                          /\ r_pc' = "encoded"
                          /\ UNCHANGED r_result
    /\ UNCHANGED <<r_search, r_seen, r_index, r_i, storeVars>>
    /\ ReloadFrame

\* if self.index_store.index is None: raise RuntimeError
ReloadTestIndex ==
    /\ r_pc = "encoded"
    /\ IF s_index = None THEN ReloadEnd(Raise("RuntimeError"))
       ELSE r_pc' = "tested" /\ UNCHANGED r_result
    /\ UNCHANGED <<r_query, r_k, r_search, r_qvec, r_seen, r_index, r_i, embed_calls, storeVars>>
    /\ ReloadFrame

\* self.index_store.index.search(query_vector, k): the index is read again
\* (load never assigns None to it)
ReloadSearch ==
    /\ r_pc = "tested"
    /\ IF ~SearchAccepts(s_index[1], r_qvec[1], r_k)
       THEN ReloadEnd(Raise("AssertionError")) /\ UNCHANGED <<r_search, r_index>>
       ELSE /\ r_search' \in search(s_index[1], r_qvec[1], r_k)
            /\ r_index' = s_index
            /\ r_pc' = "searched"
            /\ UNCHANGED r_result
    /\ UNCHANGED <<r_query, r_k, r_qvec, r_seen, r_i, embed_calls, storeVars>>
    /\ ReloadFrame

\* the next row of zip(row_ids, scores): the sentinel test, and the range test
\* against len(self.index_store.lookup) as it is now
ReloadRow ==
    /\ r_pc = "searched"
    /\ r_i < Len(r_search)
    /\ LET row_id == r_search[r_i + 1].row
       IN IF row_id = -1
          THEN r_i' = r_i + 1 /\ UNCHANGED <<r_pc, r_seen>>
          ELSE /\ r_seen' = Some([index |-> r_index[1], lookup |-> s_lookup])
               /\ IF row_id < 0 \/ row_id >= Len(s_lookup)
                  THEN r_i' = r_i + 1 /\ UNCHANGED r_pc
                  ELSE r_pc' = "row_checked" /\ UNCHANGED r_i
    /\ UNCHANGED <<r_query, r_k, r_search, r_qvec, r_index, r_result, embed_calls, storeVars>>
    /\ ReloadFrame

\* record = self.index_store.lookup[row_id], the lookup being read again, and
\* results.append
ReloadRead ==
    /\ r_pc = "row_checked"
    /\ r_seen' = Some([index |-> r_index[1], lookup |-> s_lookup])
    /\ LET row_id == r_search[r_i + 1].row
           score == r_search[r_i + 1].score
       IN IF row_id >= Len(s_lookup)
          THEN /\ r_pc' = "done"
               /\ r_result' = [ok |-> FALSE, err |-> "IndexError", val |-> r_result.val]
               /\ UNCHANGED r_i
          ELSE /\ r_result' = [r_result EXCEPT
                                 !.val = Append(@, RetrievedChunk(s_lookup[row_id + 1], score))]
               /\ r_i' = r_i + 1
               /\ r_pc' = "searched"
    /\ UNCHANGED <<r_query, r_k, r_search, r_qvec, r_index, embed_calls, storeVars>>
    /\ ReloadFrame

\* the loop is over: return results
ReloadReturn ==
    /\ r_pc = "searched"
    /\ r_i = Len(r_search)
    /\ ReloadEnd(Return(r_result.val))
    /\ UNCHANGED <<r_query, r_k, r_search, r_qvec, r_seen, r_index, r_i, embed_calls, storeVars>>
    /\ ReloadFrame

ReloadNext ==
    \/ LoadMeta \/ LoadIndex \/ LoadLookupOpen \/ LoadLookup \/ LoadValidate
    \/ ReloadRetrieve \/ ReloadTestIndex \/ ReloadSearch \/ ReloadRow \/ ReloadRead
    \/ ReloadReturn

(***************************************************************************)
(* Specification SpecConcurrentBuild: two invocations of                   *)
(* build_faiss_index_from_chunks without force, metric cosine, into the    *)
(* same out_dir, running as two processes whose steps interleave.          *)
(***************************************************************************)
RivalIdle == p_pc = "idle" /\ p_chunks = NoFile /\ p_mem = NoBuildMem /\ p_err = "none"

RivalFrame ==
    UNCHANGED <<chunkVars, datasetVars, generateVars, storeVars, retrieveVars, buildVars, answerVars, apiVars, fetchVars>>

RivalFail(e) == p_pc' = "failed" /\ p_err' = e /\ UNCHANGED <<p_mem>>

\* the second build up to the call of save_artifacts
RivalPrepare ==
    /\ p_pc = "ready"
    /\ IF build_checks(p_chunks, "cosine", FALSE, fs_index.exists) # "none"
       THEN RivalFail(build_checks(p_chunks, "cosine", FALSE, fs_index.exists))
       ELSE LET loaded == load_chunks(p_chunks)
            IN IF ~loaded.ok THEN RivalFail(loaded.err)
               ELSE IF loaded.val = <<>> THEN RivalFail("No chunks found")
               ELSE LET texts == [i \in 1..Len(loaded.val) |-> loaded.val[i].text]
                        embedded == embed_texts(texts)
                        embeddings == embedded.val
                    IN IF ~embedded.ok THEN RivalFail(embedded.err)
                       ELSE /\ p_mem' = [metas |-> loaded.val,
                                         index |-> build_faiss_index(embeddings),
                                         run_meta |-> RunMeta(Some(Shape1(embeddings)),
                                                              Len(texts))]
                            /\ p_pc' = "prepared"
                            /\ p_err' = "none"
    /\ UNCHANGED <<p_chunks, fsVars>>
    /\ RivalFrame

RivalSaveIndex ==
    /\ p_pc = "prepared"
    /\ fs_dir' = TRUE
    /\ fs_index' = IndexFile(p_mem.index)
    /\ p_pc' = "index_saved"
    /\ UNCHANGED <<fs_lookup, fs_meta, p_chunks, p_mem, p_err>>
    /\ RivalFrame

RivalSaveLookupOpen ==
    /\ p_pc = "index_saved"
    /\ fs_lookup' = File(<<>>)
    /\ p_pc' = "lookup_open"
    /\ UNCHANGED <<fs_dir, fs_index, fs_meta, p_chunks, p_mem, p_err>>
    /\ RivalFrame

\* save_artifacts, step 2 ends: the rows are written and the file is closed
RivalSaveLookup ==
    /\ p_pc = "lookup_open"
    /\ fs_lookup' = File(Overwrite(LookupRows(p_mem.metas), fs_lookup.lines))
    /\ p_pc' = "lookup_saved"
    /\ UNCHANGED <<fs_dir, fs_index, fs_meta, p_chunks, p_mem, p_err>>
    /\ RivalFrame

RivalSaveMetaOpen ==
    /\ p_pc = "lookup_saved"
    /\ fs_meta' = EmptyMetaFile
    /\ p_pc' = "meta_open"
    /\ UNCHANGED <<fs_dir, fs_index, fs_lookup, p_chunks, p_mem, p_err>>
    /\ RivalFrame

\* save_artifacts, step 3 ends: json.dump, the file is closed and the build
\* returns the three paths
RivalSaveMeta ==
    /\ p_pc = "meta_open"
    /\ \E longer \in BOOLEAN : fs_meta' = WriteMeta(p_mem.run_meta, fs_meta, longer)
    /\ p_pc' = "done"
    /\ UNCHANGED <<fs_dir, fs_index, fs_lookup, p_chunks, p_mem, p_err>>
    /\ RivalFrame

ConcurrentChunkFiles ==
    RebuildChunkFiles \cup { File(<<JsonLine(DatasetRecord(<<"a", "a">>, 0))>>) }

ConcurrentBuildInit ==
    /\ b_pc = "ready"
    /\ b_chunks \in ConcurrentChunkFiles
    /\ b_metric = "cosine"
    /\ b_force = FALSE
    /\ b_mem = NoBuildMem
    /\ b_err = "none"
    /\ (FsEmpty \/ FsEmptyDir \/ FsEarlier)
    /\ b_before = FsState
    /\ p_pc = "ready"
    /\ p_chunks \in ConcurrentChunkFiles
    /\ p_mem = NoBuildMem
    /\ p_err = "none"

ConcurrentBuildNext ==
    \/ BuildPrepare \/ SaveIndex \/ SaveLookupOpen \/ SaveLookup \/ SaveMetaOpen \/ SaveMeta
    \/ RivalPrepare \/ RivalSaveIndex \/ RivalSaveLookupOpen \/ RivalSaveLookup \/ RivalSaveMetaOpen \/ RivalSaveMeta

(***************************************************************************)
(* Specification SpecRoundTrip: build_chunks_dataset writes chunks.jsonl,  *)
(* build_faiss_index_from_chunks builds the three artifacts from it, and   *)
(* a fresh IndexStore loads them.                                          *)
(***************************************************************************)
\* chunks.jsonl as written: one json.dumps(rec) line per record
DatasetFile(out) == File([i \in 1..Len(out.lines) |-> JsonLine(out.lines[i])])

\* build_faiss_index_from_chunks is invoked on the dataset just written
RoundTripBuild ==
    /\ d_pc = "done"
    /\ b_pc = "idle"
    /\ b_pc' = "ready"
    /\ b_chunks' = DatasetFile(d_out)
    /\ b_metric' = "cosine"
    /\ b_force' \in BOOLEAN
    /\ b_before' = FsState
    /\ UNCHANGED <<b_mem, b_err, fsVars>>
    /\ BuildFrame

\* IndexStore(index_path, lookup_path, meta_path) over the build's artifacts
RoundTripLoad ==
    /\ b_pc = "done"
    /\ l_pc = "idle"
    /\ l_pc' = "ready"
    /\ UNCHANGED <<s_index, s_lookup, s_meta, l_line, l_err>>
    /\ LoadFrame

RoundTripNext ==
    \/ DatasetOpen \/ DatasetDocument \/ DatasetFinish
    \/ RoundTripBuild \/ BuildPrepare \/ SaveIndex \/ SaveLookupOpen \/ SaveLookup \/ SaveMetaOpen \/ SaveMeta
    \/ RoundTripLoad \/ LoadMeta \/ LoadIndex \/ LoadLookupOpen \/ LoadLookup \/ LoadValidate

RoundTripInit == DatasetInit /\ (FsEmpty \/ FsEarlier)

InitChunk == ChunkInit /\ DatasetIdle /\ GenerateIdle /\ StoreIdle /\ RetrieveIdle /\ FsEmpty /\ BuildIdle /\ AnswerIdle /\ ApiIdle /\ FetchIdle /\ RivalIdle

SpecChunk == InitChunk /\ [][ChunkCall]_vars

InitDataset == DatasetInit /\ ChunkIdle /\ GenerateIdle /\ StoreIdle /\ RetrieveIdle /\ FsEmpty /\ BuildIdle /\ AnswerIdle /\ ApiIdle /\ FetchIdle /\ RivalIdle

SpecDataset == InitDataset /\ [][DatasetNext]_vars

InitGenerate == GenerateInit /\ ChunkIdle /\ DatasetIdle /\ StoreIdle /\ RetrieveIdle /\ FsEmpty /\ BuildIdle /\ AnswerIdle /\ ApiIdle /\ FetchIdle /\ RivalIdle

SpecGenerate == InitGenerate /\ [][GenerateCall]_vars

InitRetrieve == RetrieveInit /\ ChunkIdle /\ DatasetIdle /\ GenerateIdle /\ FsEmpty /\ BuildIdle /\ AnswerIdle /\ ApiIdle /\ FetchIdle /\ RivalIdle

SpecRetrieve == InitRetrieve /\ [][RetrieveCall]_vars

InitBuild ==
    BuildInit /\ ChunkIdle /\ DatasetIdle /\ GenerateIdle /\ StoreIdle /\ RetrieveIdle /\ AnswerIdle /\ ApiIdle /\ FetchIdle /\ RivalIdle

SpecBuild == InitBuild /\ [][BuildNext]_vars

InitRebuild ==
    RebuildInit /\ ChunkIdle /\ DatasetIdle /\ GenerateIdle /\ StoreIdle /\ RetrieveIdle /\ AnswerIdle /\ ApiIdle /\ FetchIdle /\ RivalIdle

SpecRebuild == InitRebuild /\ [][RebuildNext]_vars

InitLoad ==
    LoadInit /\ ChunkIdle /\ DatasetIdle /\ GenerateIdle /\ RetrieveIdle /\ BuildIdle /\ AnswerIdle /\ ApiIdle /\ FetchIdle /\ RivalIdle

SpecLoad == InitLoad /\ [][LoadNext]_vars

InitStore ==
    StoreInit /\ ChunkIdle /\ DatasetIdle /\ GenerateIdle /\ RetrieveIdle /\ BuildIdle /\ AnswerIdle /\ ApiIdle /\ FetchIdle /\ RivalIdle

SpecStore == InitStore /\ [][StoreNext]_vars

InitAnswer ==
    AnswerInit /\ ChunkIdle /\ DatasetIdle /\ GenerateIdle /\ FsEmpty /\ BuildIdle /\ ApiIdle /\ FetchIdle /\ RivalIdle

SpecAnswer == InitAnswer /\ [][AnswerNext]_vars

InitApi ==
    ApiInit /\ ChunkIdle /\ DatasetIdle /\ GenerateIdle /\ StoreIdle /\ RetrieveIdle /\ BuildIdle /\ AnswerIdle /\ FetchIdle /\ RivalIdle

SpecApi == InitApi /\ [][ApiNext]_vars

InitFetch ==
    FetchInit /\ ChunkIdle /\ DatasetIdle /\ GenerateIdle /\ StoreIdle /\ RetrieveIdle /\ FsEmpty /\ BuildIdle /\ AnswerIdle /\ ApiIdle /\ RivalIdle

SpecFetch == InitFetch /\ [][FetchNext]_vars

InitReload ==
    ReloadInit /\ ChunkIdle /\ DatasetIdle /\ GenerateIdle /\ RetrieveIdle /\ BuildIdle /\ AnswerIdle /\ ApiIdle /\ FetchIdle /\ RivalIdle

SpecReload == InitReload /\ [][ReloadNext]_vars

InitConcurrentBuild ==
    ConcurrentBuildInit /\ ChunkIdle /\ DatasetIdle /\ GenerateIdle /\ StoreIdle /\ RetrieveIdle /\ AnswerIdle /\ ApiIdle /\ FetchIdle

SpecConcurrentBuild == InitConcurrentBuild /\ [][ConcurrentBuildNext]_vars

InitRoundTrip ==
    RoundTripInit /\ ChunkIdle /\ GenerateIdle /\ StoreIdle /\ RetrieveIdle /\ BuildIdle /\ AnswerIdle /\ ApiIdle /\ FetchIdle /\ RivalIdle

SpecRoundTrip == InitRoundTrip /\ [][RoundTripNext]_vars

ValidWindow(size, overlap) == size > 0 /\ overlap >= 0 /\ overlap < size

c_words == split(c_text)
c_wins == chunk_windows(c_text, c_size, c_overlap, c_min)

\* last n elements / first n elements of a sequence of at least n elements
LastN(seq, n) == SubSeq(seq, Len(seq) - n + 1, Len(seq))
FirstN(seq, n) == SubSeq(seq, 1, n)

(***************************************************************************)
(* C5 (as stated): for valid (size, overlap, min_words) and a text of at   *)
(* most size words, chunk_text_words returns exactly one chunk, the words  *)
(* of the text joined by single spaces.                                    *)
(***************************************************************************)
C5_Original ==
    (c_pc = "done" /\ ValidWindow(c_size, c_overlap) /\ Len(c_words) <= c_size)
        => (c_result.ok /\ c_result.val = <<join(c_words)>>)

(***************************************************************************)
(* C5 (amended): the same, for texts of at least min_words and at most     *)
(* size words; a text of fewer than min_words words yields no chunk.       *)
(***************************************************************************)
C5_SingleChunk ==
    (c_pc = "done" /\ ValidWindow(c_size, c_overlap) /\ Len(c_words) <= c_size)
        => /\ c_result.ok
           /\ Len(c_words) >= c_min => c_result.val = <<join(c_words)>>
           /\ Len(c_words) < c_min => c_result.val = <<>>

C5_Witness ==
    /\ c_pc = "done" /\ ValidWindow(c_size, c_overlap)
    /\ Len(c_words) = c_size /\ Len(c_words) >= 2 /\ c_min = 2
    /\ c_text # join(c_words)
    /\ c_result.val = <<join(c_words)>>

(***************************************************************************)
(* C6 (as stated): for 0 <= overlap < size and a text longer than size     *)
(* words, every two consecutive returned windows share exactly overlap     *)
(* words (the last overlap words of the earlier are the first overlap of   *)
(* the later), except possibly the pair whose second member is the final   *)
(* window.                                                                 *)
(***************************************************************************)
SharesOverlap(j) ==
    LET a == split(c_result.val[j])
        b == split(c_result.val[j + 1])
    IN /\ c_wins[j].stop - c_wins[j + 1].start = c_overlap
       /\ Len(a) >= c_overlap /\ Len(b) >= c_overlap
       /\ LastN(a, c_overlap) = FirstN(b, c_overlap)

C6_Original ==
    (c_pc = "done" /\ ValidWindow(c_size, c_overlap) /\ Len(c_words) > c_size)
        => /\ c_result.ok
           /\ \A j \in 1..(Len(c_result.val) - 1) :
                  (j + 1 # Len(c_result.val)) => SharesOverlap(j)

(***************************************************************************)
(* C6 (amended): every two consecutive returned windows whose earlier      *)
(* member has the full size words share exactly overlap words; the tail    *)
(* can hold several shorter windows, and a pair whose earlier member is    *)
(* one of them shares fewer.                                               *)
(***************************************************************************)
C6_FullWindowsOverlap ==
    (c_pc = "done" /\ ValidWindow(c_size, c_overlap) /\ Len(c_words) > c_size)
        => /\ c_result.ok
           /\ Len(c_result.val) = Len(c_wins)
           /\ \A j \in 1..(Len(c_result.val) - 1) :
                  (Len(split(c_result.val[j])) = c_size) => SharesOverlap(j)

C6_Witness ==
    /\ c_pc = "done" /\ ValidWindow(c_size, c_overlap) /\ Len(c_words) > c_size
    /\ c_overlap >= 1 /\ Len(c_result.val) >= 3
    /\ Len(split(c_result.val[2])) = c_size
    /\ SharesOverlap(1) /\ SharesOverlap(2)

(***************************************************************************)
(* C7: chunk_text_words fails with a configuration error whenever          *)
(* size <= 0, overlap < 0 or overlap >= size, for any text and min_words.  *)
(***************************************************************************)
C7_BadWindowRejected ==
    (c_pc = "done" /\ ~ValidWindow(c_size, c_overlap))
        => (~c_result.ok /\ c_result.err = "ValueError")

(***************************************************************************)
(* C3: the k-th record written to the dataset file (k counted from 0) has  *)
(* chunk_id = k, whatever number of chunks each document contributes.      *)
(***************************************************************************)
C3_ChunkIdsGapless ==
    (d_pc \in {"writing", "done", "failed"})
        => \A k \in 1..Len(d_out.lines) : d_out.lines[k].chunk_id = Some(k - 1)

C3_Witness ==
    /\ d_pc = "done" /\ Len(d_raw) = 3
    /\ ~d_raw[1].parses /\ Len(d_raw[2].sections) = 2 /\ d_raw[3].parses
    /\ Len(d_out.lines) >= 4
    /\ d_out.lines[Len(d_out.lines)].pmcid = "PMC3"
    /\ d_out.lines[Len(d_out.lines)].chunk_id = Some(Len(d_out.lines) - 1)
    /\ \E k \in 1..Len(d_out.lines) : d_out.lines[k].chunk_index_in_section = 1

(***************************************************************************)
(* C1: for every answer text and non-empty chunk list, the citations are   *)
(* those of the distinct in-range 0-based indices (marker value - 1), in   *)
(* order of first appearance of their [digits] marker; out-of-range and    *)
(* repeated markers give no citation and no error.                         *)
(***************************************************************************)
\* a marker occupies positions p..q of s: "[", one or more digits, "]"
IsMarker(s, p, q) ==
    /\ q > p + 1 /\ s[p] = "[" /\ s[q] = "]"
    /\ \A r \in (p + 1)..(q - 1) : isdigit(s[r])

MarkerStarts(s) == {p \in 1..Len(s) : \E q \in 1..Len(s) : IsMarker(s, p, q)}

MarkerIndex(s, p) ==
    LET q == CHOOSE q \in 1..Len(s) : IsMarker(s, p, q)
    IN int(SubSeq(s, p + 1, q - 1)) - 1

CitedIndices(s, n) == {i \in 0..(n - 1) : \E p \in MarkerStarts(s) : MarkerIndex(s, p) = i}

FirstAppearance(s, i) ==
    CHOOSE p \in MarkerStarts(s) :
        /\ MarkerIndex(s, p) = i
        /\ \A p2 \in MarkerStarts(s) : MarkerIndex(s, p2) = i => p <= p2

\* the cited indices in order of first appearance
ExpectedIndices(s, n) ==
    LET cited == CitedIndices(s, n)
        rank(i) == 1 + Cardinality({i2 \in cited :
                                      FirstAppearance(s, i2) < FirstAppearance(s, i)})
    IN [j \in 1..Cardinality(cited) |-> CHOOSE i \in cited : rank(i) = j]

C1_CitationsFirstAppearance ==
    (g_pc = "done" /\ g_chunks # <<>> /\ llm_calls = 1 /\ g_result.err # "CompletionError")
        => LET expected == ExpectedIndices(g_raw, Len(g_chunks))
           IN /\ g_result.ok
              /\ g_result.val.citations =
                    [j \in 1..Len(expected) |-> CitationOf(g_chunks[expected[j] + 1])]

\* three markers such as "[2][1][2]" against two different chunks: the second
\* chunk is cited first, and once
C1_Witness ==
    /\ g_pc = "done" /\ Len(g_chunks) = 2 /\ g_chunks[1] # g_chunks[2]
    /\ ExpectedIndices(g_raw, 2) = <<1, 0>>
    /\ Cardinality(MarkerStarts(g_raw)) = 3
    /\ Len(g_result.val.citations) = 2
    /\ g_result.val.citations[1] = CitationOf(g_chunks[2])

(***************************************************************************)
(* C10: generate(query, []) returns the fixed no-relevant-documents        *)
(* answer, no citations and no context, and never calls the completion     *)
(* capability.                                                             *)
(***************************************************************************)
C10_NoChunksNoCompletion ==
    (g_pc = "done" /\ g_chunks = <<>>)
        => /\ g_result.ok
           /\ g_result.val = AnswerWithCitations(NoDocumentsAnswer, <<>>, <<>>)
           /\ llm_calls = 0

C10_Witness ==
    /\ g_pc = "done" /\ g_chunks = <<>> /\ g_query # <<>>
    /\ g_result.val.answer = NoDocumentsAnswer /\ llm_calls = 0

(***************************************************************************)
(* C8: retrieve returns the empty list for every empty or whitespace-only  *)
(* query and every k, and then the embedding capability is not invoked.    *)
(***************************************************************************)
IsBlank(query) == \A i \in 1..Len(query) : query[i] = " "

C8_BlankQueryShortCircuit ==
    (r_pc = "done" /\ IsBlank(r_query))
        => (r_result.ok /\ r_result.val = <<>> /\ embed_calls = 0)

C8_Witness ==
    /\ r_pc = "done" /\ r_query = <<" ", " ">> /\ r_k = MaxK
    /\ s_index # None /\ Len(s_lookup) > 0
    /\ r_result.ok /\ r_result.val = <<>> /\ embed_calls = 0

(***************************************************************************)
(* C9: for a non-blank query and k >= 1 against a store with an index,     *)
(* retrieve returns at most k chunks in non-increasing score order, each   *)
(* the lookup record at a row the search returned with that row's score;   *)
(* sentinel rows and rows outside the lookup are skipped without raising.  *)
(***************************************************************************)
\* positions of the search result that name a row of the lookup
ValidHits == {j \in 1..Len(r_search) :
                r_search[j].row >= 0 /\ r_search[j].row < Len(s_lookup)}

C9_RetrieveMapsRows ==
    (r_pc = "done" /\ ~IsBlank(r_query) /\ r_k >= 1 /\ s_index # None
        /\ r_result.err # "EmbeddingError")
        => LET res == r_result.val IN
           /\ r_result.ok
           /\ Len(r_search) = r_k
           /\ Len(res) <= r_k
           /\ Len(res) = Cardinality(ValidHits)
           /\ \A i \in 1..(Len(res) - 1) : res[i].score >= res[i + 1].score
           /\ \A i \in 1..Len(res) :
                 \E j \in ValidHits :
                    /\ Cardinality({j2 \in ValidHits : j2 < j}) = i - 1
                    /\ res[i].record = s_lookup[r_search[j].row + 1]
                    /\ res[i].score = r_search[j].score

\* the search returned a row past the lookup, a valid row and a sentinel
C9_Witness ==
    /\ r_pc = "done" /\ ~IsBlank(r_query) /\ r_result.ok
    /\ \E j \in 1..Len(r_search) : r_search[j].row = -1
    /\ \E j \in 1..Len(r_search) : r_search[j].row >= Len(s_lookup)
    /\ Len(r_result.val) = 1 /\ Len(r_search) = 3

(***************************************************************************)
(* C2: after build_faiss_index_from_chunks succeeds on any chunk dataset,  *)
(* whatever fields its records carry, the persisted index holds as many    *)
(* vectors as the lookup file has rows and the i-th lookup row has         *)
(* row_id = i (0-based).                                                   *)
(***************************************************************************)
C2_LookupRowAligned ==
    (b_pc = "done")
        => /\ fs_index.exists /\ fs_lookup.exists
           /\ ntotal(fs_index.index) = Len(fs_lookup.lines)
           /\ \A i \in 1..Len(fs_lookup.lines) :
                 /\ fs_lookup.lines[i].kind = "object"
                 /\ fs_lookup.lines[i].obj.row_id = i - 1

(***************************************************************************)
(* C4 (as stated): with three readable artifacts, load() fails with a      *)
(* consistency error whenever the index's vector count differs from the    *)
(* number of lookup records, and with a dimension error whenever the       *)
(* metadata declares a dimension other than the index's; it succeeds only  *)
(* when neither mismatch is present.                                       *)
(***************************************************************************)
\* the three files exist and each of them parses
ArtifactsReadable ==
    /\ fs_index.exists /\ fs_index.valid /\ fs_meta.exists /\ fs_meta.valid
    /\ fs_lookup.exists /\ ParseLookupLines(fs_lookup.lines, <<>>).ok

LookupRecordCount ==
    Cardinality({i \in 1..Len(fs_lookup.lines) : fs_lookup.lines[i].kind # "blank"})

CountMismatch == ntotal(fs_index.index) # LookupRecordCount

DimMismatch ==
    /\ fs_meta.data.embedding_dim # None
    /\ fs_meta.data.embedding_dim[1] # fs_index.index.d

LoadEnded == l_pc \in {"done", "failed"}

C4_Original ==
    (LoadEnded /\ ArtifactsReadable)
        => /\ CountMismatch => (l_pc = "failed" /\ l_err = "Consistency error")
           /\ DimMismatch => (l_pc = "failed" /\ l_err = "Dimension mismatch")
           /\ l_pc = "done" => (~CountMismatch /\ ~DimMismatch)

(***************************************************************************)
(* C4 (amended): the count test comes first: load() fails with a           *)
(* consistency error whenever the counts differ, with a dimension error    *)
(* whenever the counts agree and the declared dimension differs, and       *)
(* succeeds only when neither mismatch is present.                         *)
(***************************************************************************)
C4_ValidateMismatches ==
    (LoadEnded /\ ArtifactsReadable)
        => /\ CountMismatch => (l_pc = "failed" /\ l_err = "Consistency error")
           /\ (DimMismatch /\ ~CountMismatch)
                 => (l_pc = "failed" /\ l_err = "Dimension mismatch")
           /\ l_pc = "done" => (~CountMismatch /\ ~DimMismatch)

C4_Witness ==
    /\ LoadEnded /\ ArtifactsReadable
    /\ DimMismatch /\ ~CountMismatch /\ LookupRecordCount = 2
    /\ l_pc = "failed" /\ l_err = "Dimension mismatch"

(***************************************************************************)
(* C11: answer(query, k) is strictly sequential.  The completion           *)
(* capability is never invoked before retrieve has returned successfully;  *)
(* when retrieve fails its error is the error of answer and generate is    *)
(* never started; otherwise the outcome of answer is exactly the outcome   *)
(* of generate on the query and on the chunks retrieve returned.           *)
(***************************************************************************)
C11_AnswerSequential ==
    /\ (llm_calls > 0 \/ g_pc # "idle") => (r_pc = "done" /\ r_result.ok)
    /\ (r_pc = "done" /\ ~r_result.ok)
          => /\ a_pc = "failed" /\ ~a_result.ok /\ a_result.err = r_result.err
             /\ g_pc = "idle" /\ llm_calls = 0
    /\ (a_pc \in {"done", "failed"} /\ r_result.ok)
          => LET out == generate(r_query, r_result.val, [ok |-> g_pc = "done" /\ g_result.ok, text |-> g_raw])
             IN /\ g_pc = "done" /\ g_query = r_query /\ g_chunks = r_result.val
                /\ a_result = [ok |-> out.ok, err |-> out.err, val |-> out.val]
                /\ llm_calls = out.calls
                /\ a_result.ok => a_result.val.context_used = r_result.val

C11_Witness ==
    /\ a_pc = "done" /\ a_result.ok
    /\ Len(r_result.val) = 2
    /\ Len(a_result.val.citations) = 2
    /\ llm_calls = 1 /\ embed_calls = 1

(***************************************************************************)
(* C12: after load() has failed, for whatever reason, the store exposes no *)
(* loaded index and no lookup records, and a retrieve against it fails     *)
(* with the index-not-loaded error instead of returning results.           *)
(***************************************************************************)
C12_FailedLoadUnusable ==
    (l_pc = "failed")
        => /\ s_index = None
           /\ s_lookup = <<>>
           /\ (r_pc = "done" /\ strip(r_query) # <<>> /\ r_result.err # "EmbeddingError")
                 => (~r_result.ok /\ r_result.err = "RuntimeError")

(***************************************************************************)
(* C13: after a successful load() the lookup list is addressable by        *)
(* row_id: the record at position i has row_id = i (0-based), so every     *)
(* record retrieve returns for an index row r has row_id = r.              *)
(***************************************************************************)
C13_LookupAddressable ==
    (l_pc = "done")
        => /\ \A i \in 1..Len(s_lookup) : s_lookup[i].row_id = i - 1
           /\ (r_pc = "done" /\ r_result.ok)
                 => \A i \in 1..Len(r_result.val) :
                       \E j \in ValidHits :
                          /\ Cardinality({j2 \in ValidHits : j2 < j}) = i - 1
                          /\ r_result.val[i].record.row_id = r_search[j].row

(***************************************************************************)
(* C14: lookup integrity is all-or-nothing.  If any line of the lookup     *)
(* file is not valid JSON, not an object or lacks a required field, load() *)
(* does not succeed, and once the metadata and the index have been read    *)
(* it fails with a corrupt-lookup error; a load that succeeds holds one    *)
(* record for every non-blank line of the file.                            *)
(***************************************************************************)
HasBadLookupLine == \E i \in 1..Len(fs_lookup.lines) : BadLookupLine(fs_lookup.lines[i])

CorruptLookupErrors == {"Invalid lookup record", "Failed to read lookup file"}

C14_LookupAllOrNothing ==
    LoadEnded
        => /\ HasBadLookupLine => l_pc = "failed"
           /\ (HasBadLookupLine /\ fs_index.exists /\ fs_index.valid
                    /\ fs_meta.exists /\ fs_meta.valid)
                 => l_err \in CorruptLookupErrors
           /\ l_pc = "done" => Len(s_lookup) = LookupRecordCount

\* a valid record was read before the line lacking a required field
C14_Witness ==
    /\ l_pc = "failed" /\ l_err = "Invalid lookup record"
    /\ Len(s_lookup) = 1 /\ Len(fs_lookup.lines) = 3
    /\ fs_lookup.lines[2].kind = "object" /\ BadLookupLine(fs_lookup.lines[2])
    /\ ntotal(fs_index.index) = 1

(***************************************************************************)
(* C15: overwrite protection.  A build invoked without force on an out_dir *)
(* that holds an index never gets past its tests and leaves the directory  *)
(* and its three files as they were; its error is the artifact-exists      *)
(* error whenever the chunks file exists and the metric is cosine (those   *)
(* two tests come first).  Over any sequence of builds, a file that        *)
(* existed when a build was invoked differs from what it was only if that  *)
(* build was invoked with force.                                           *)
(***************************************************************************)
C15_OverwriteProtection ==
    /\ (b_pc # "idle" /\ b_before.index.exists /\ ~b_force)
          => /\ b_pc \in {"ready", "failed"}
             /\ FsState = b_before
             /\ (b_pc = "failed" /\ b_chunks.exists /\ b_metric = "cosine")
                   => b_err = "Index already exists"
    /\ (b_pc # "idle" /\ ~b_force)
          => /\ b_before.index.exists => fs_index = b_before.index
             /\ b_before.lookup.exists => fs_lookup = b_before.lookup
             /\ b_before.meta.exists => fs_meta = b_before.meta

\* the index that is protected was written by a build of this sequence
C15_Witness ==
    /\ b_pc = "failed" /\ b_err = "Index already exists" /\ ~b_force
    /\ b_before.index.exists /\ b_before.index # EarlierIndex
    /\ b_before.lookup.exists /\ b_before.meta.exists
    /\ FsState = b_before

(***************************************************************************)
(* C16: the three artifacts are produced atomically as a set.  In every    *)
(* state reachable from a build, out_dir holds either none of the three    *)
(* files or an index, a lookup and a run metadata file of one and the same *)
(* build.                                                                  *)
(***************************************************************************)
\* the texts of the rows of a lookup file
LookupTexts(lines) == [i \in 1..Len(lines) |-> lines[i].obj.text]

\* index, lookup and metadata are those one build writes for one dataset
SameBuild ==
    /\ fs_index.exists /\ fs_lookup.exists /\ fs_meta.exists
    /\ fs_lookup.lines # <<>>
    /\ fs_index.index = build_faiss_index(embed_texts(LookupTexts(fs_lookup.lines)).val)
    /\ fs_meta.data = RunMeta(Some(fs_index.index.d), Len(fs_lookup.lines))

C16_ArtifactsAtomic == NoFiles \/ SameBuild

(***************************************************************************)
(* C18: every precondition failure of build_faiss_index_from_chunks is     *)
(* raised before any side effect.  When the chunks file is missing, the    *)
(* metric is not cosine, the dataset is empty after parsing or a record    *)
(* read by load_chunks lacks its text field, the build fails, with or      *)
(* without force, and out_dir and its three files are never created or     *)
(* modified.                                                               *)
(***************************************************************************)
\* the JSON objects among the lines of the chunks file
ChunkObjects == SelectSeq(b_chunks.lines, LAMBDA line : line.kind = "object")

PreconditionViolated ==
    \/ ~b_chunks.exists
    \/ b_metric # "cosine"
    \/ ChunkObjects = <<>>
    \/ \E i \in 1..Len(ChunkObjects) : "text" \notin DOMAIN ChunkObjects[i].obj

PreconditionErrors ==
    {"Chunks file not found", "Unsupported metric", "Index already exists",
     "No chunks found", "Missing text field"}

\* a line that is JSON but not an object ends load_chunks before any later
\* record is read, with the missing-text error or with a TypeError
HasNonObjectLine ==
    \E i \in 1..Len(b_chunks.lines) : b_chunks.lines[i].kind \in {"scalar", "iterable"}

C18_PreconditionsBeforeEffects ==
    /\ (b_pc # "idle" /\ PreconditionViolated)
          => /\ b_pc \in {"ready", "failed"}
             /\ FsState = b_before
    /\ (b_pc = "failed" /\ b_err \in PreconditionErrors) => FsState = b_before
    /\ (b_pc = "failed" /\ PreconditionViolated /\ ~HasNonObjectLine)
          => b_err \in PreconditionErrors
    /\ (b_pc = "failed" /\ PreconditionViolated /\ HasNonObjectLine)
          => b_err \in PreconditionErrors \cup {"TypeError"}

\* a forced build over earlier artifacts fails on a record without text
C18_Witness ==
    /\ b_pc = "failed" /\ b_err = "Missing text field" /\ b_force
    /\ b_before.index = EarlierIndex /\ FsState = b_before
    /\ Len(ChunkObjects) = 2

(***************************************************************************)
(* C17: build_chunks_dataset invoked with bad window parameters fails with *)
(* a configuration error for every input directory, and when it fails the  *)
(* chunk dataset file is as it was at the call (neither created nor        *)
(* truncated) and no companion metadata has been written.                  *)
(***************************************************************************)
C17_BadParamsBeforeOutput ==
    (d_pc \notin {"idle", "ready"} /\ ~ValidWindow(d_params.size, d_params.overlap))
        => /\ d_pc # "done"
           /\ d_pc = "failed" => d_out = d_before

(***************************************************************************)
(* C19: a document that fails to parse is skipped.  With valid window      *)
(* parameters build_chunks_dataset never fails, and when it is done the    *)
(* dataset holds exactly the records of the parseable documents, in        *)
(* document order, with chunk ids 0, 1, 2, ... in file order.              *)
(***************************************************************************)
RECURSIVE ParseableRecords(_)
\* the records of the parseable documents among the first n, in document order
ParseableRecords(n) ==
    IF n = 0 THEN <<>>
    ELSE ParseableRecords(n - 1) \o
         (IF d_raw[n].parses
          THEN ArticleSections(DocName(n), d_raw[n].sections, 0, d_params.size,
                               d_params.overlap, d_params.min_words, <<>>).val
          ELSE <<>>)

ExpectedDataset ==
    LET recs == ParseableRecords(Len(d_raw))
    IN [j \in 1..Len(recs) |-> DictSet(recs[j], "chunk_id", Some(j - 1))]

C19_UnparsableSkipped ==
    ValidWindow(d_params.size, d_params.overlap)
        => /\ d_pc # "failed"
           /\ d_pc = "done" => (d_out.exists /\ d_out.lines = ExpectedDataset)

\* an unparsable document between two documents that yield records
C19_Witness ==
    /\ d_pc = "done" /\ Len(d_raw) = 3
    /\ d_raw[1].parses /\ ~d_raw[2].parses /\ d_raw[3].parses
    /\ Len(d_out.lines) >= 2
    /\ d_out.lines[1].pmcid = DocName(1)
    /\ d_out.lines[Len(d_out.lines)].pmcid = DocName(3)
    /\ d_out.lines[Len(d_out.lines)].chunk_id = Some(Len(d_out.lines) - 1)

(***************************************************************************)
(* C20 (as stated): retrieve fails with the index-not-loaded error         *)
(* whenever it is invoked while the store has no loaded index, for every   *)
(* query and every k.                                                      *)
(***************************************************************************)
C20_Original ==
    (r_pc = "done" /\ s_index = None)
        => (~r_result.ok /\ r_result.err = "RuntimeError")

(***************************************************************************)
(* C20 (amended): with no loaded index, retrieve never returns a chunk and *)
(* never searches; it fails with the index-not-loaded error for every k    *)
(* and every non-blank query whose embedding succeeds.  A blank query      *)
(* returns the empty list before the store is looked at, and a failure of  *)
(* the embedding capability is raised first.                               *)
(***************************************************************************)
C20_IndexNotLoaded ==
    (r_pc = "done" /\ s_index = None)
        => /\ r_result.val = <<>> /\ r_search = <<>>
           /\ IF IsBlank(r_query) THEN r_result.ok /\ embed_calls = 0
              ELSE /\ ~r_result.ok /\ embed_calls = 1
                   /\ r_result.err = (IF r_qvec # None THEN "RuntimeError"
                                       ELSE "EmbeddingError")

\* a non-blank query against a store without index, with k = 0
C20_Witness ==
    /\ r_pc = "done" /\ s_index = None /\ ~IsBlank(r_query)
    /\ r_k = 0 /\ r_qvec # None /\ embed_calls = 1
    /\ ~r_result.ok /\ r_result.err = "RuntimeError"


(***************************************************************************)
(* C28: for valid (size, overlap), a text of n > size words and            *)
(* min_words <= 1, chunk_text_words returns exactly ceil(n / step) windows *)
(* with step = size - overlap; the j-th window (from 0) is the words       *)
(* [j*step, min(j*step + size, n)) joined by single spaces, and every word *)
(* of the text lies in at least one window.                                *)
(***************************************************************************)
C28_Step == c_size - c_overlap
C28_Count == (Len(c_words) + C28_Step - 1) \div C28_Step

C28_WindowGrid ==
    (/\ c_pc = "done" /\ ValidWindow(c_size, c_overlap)
     /\ Len(c_words) > c_size /\ c_min <= 1)
        => /\ c_result.ok
           /\ Len(c_result.val) = C28_Count
           /\ \A j \in 0..(C28_Count - 1) :
                  c_result.val[j + 1] =
                      join(SubSeq(c_words, j * C28_Step + 1,
                                  Min(j * C28_Step + c_size, Len(c_words))))
           /\ \A i \in 1..Len(c_words) :
                  \E j \in 0..(C28_Count - 1) :
                      /\ j * C28_Step < i
                      /\ i <= Min(j * C28_Step + c_size, Len(c_words))

C28_Witness ==
    /\ c_pc = "done" /\ ValidWindow(c_size, c_overlap)
    /\ Len(c_words) > c_size /\ c_min <= 1 /\ c_overlap >= 2
    /\ c_result.ok /\ Len(c_result.val) = C28_Count /\ C28_Count >= 4
    /\ Len(split(c_result.val[C28_Count])) < c_overlap


(***************************************************************************)
(* C30: answer(query, k) with an empty or whitespace-only query returns    *)
(* the fixed no-relevant-documents answer with no citations and no         *)
(* context, for every k and whether or not an index is loaded, and invokes *)
(* neither the embedding nor the completion capability.                    *)
(***************************************************************************)
C30_BlankQuestionFixedAnswer ==
    IsBlank(r_query)
        => /\ embed_calls = 0 /\ llm_calls = 0
           /\ a_pc # "failed"
           /\ a_pc = "retrieved" => (r_result.ok /\ r_result.val = <<>>)
           /\ a_pc = "done"
                 => a_result = [ok |-> TRUE, err |-> "none",
                                val |-> AnswerWithCitations(NoDocumentsAnswer, <<>>, <<>>)]

C30_Witness ==
    /\ a_pc = "done" /\ r_query = <<" ", " ">> /\ r_k = 0 /\ s_index = None
    /\ a_result.ok /\ a_result.val.answer = NoDocumentsAnswer
    /\ embed_calls = 0 /\ llm_calls = 0


(***************************************************************************)
(* C23: generate with non-empty chunks invokes the completion capability   *)
(* exactly once, and a completion failure, whether a provider error or an  *)
(* empty (zero-length) response, makes generate fail: it is never turned   *)
(* into a returned AnswerWithCitations.                                    *)
(***************************************************************************)
CompletionRaised == g_completion = "raised"
CompletionEmpty == g_completion = "returned" /\ g_raw = <<>>

C23_CompletionFailureSurfaced ==
    (g_pc = "done" /\ g_chunks # <<>>)
        => /\ llm_calls = 1
           /\ (CompletionRaised \/ CompletionEmpty) => ~g_result.ok


(***************************************************************************)
(* C21: with the service initialised, POST /query and POST /retrieve       *)
(* answer an empty or whitespace-only query with status 400, and then      *)
(* neither RAGService.answer nor Retriever.retrieve nor the embedding nor  *)
(* the completion capability is invoked.                                   *)
(***************************************************************************)
C21_BlankRejectedAtBoundary ==
    (h_pc # "idle" /\ ~h_unset /\ IsBlank(h_query))
        => /\ h_pc = "responded" /\ h_status = 400
           /\ a_pc = "idle" /\ r_pc = "idle" /\ g_pc = "idle"
           /\ embed_calls = 0 /\ llm_calls = 0

(***************************************************************************)
(* C22: the global service reference is set only after IndexStore.load()   *)
(* and every later start-up step have succeeded; a start-up that failed    *)
(* leaves it unset; and a request handled while it is unset is answered    *)
(* 503 without invoking the pipeline.                                      *)
(***************************************************************************)
C22_ReadyOnlyAfterLoad ==
    /\ rag_service
          => /\ m_pc = "serving" /\ l_pc = "done"
             /\ validate(s_index, s_lookup, s_meta) = "none"
             /\ m_client.ok
    /\ m_pc = "failed" => ~rag_service
    /\ (m_pc = "starting" /\ l_pc = "failed") => ~rag_service
    /\ (h_pc # "idle" /\ h_unset)
          => /\ h_pc = "responded" /\ h_status = 503
             /\ a_pc = "idle" /\ r_pc = "idle"
    /\ (h_pc = "responded" /\ h_status # 503) => rag_service

C22_Witness ==
    /\ m_pc = "failed" /\ l_pc = "failed" /\ s_index # None
    /\ ~rag_service
    /\ h_pc = "responded" /\ h_endpoint = "/retrieve" /\ h_query = <<"q">>
    /\ h_status = 503

(***************************************************************************)
(* C26: for every provider name of the allowed set whose API key is        *)
(* present (dummy needs none), get_llm_client returns a client of that     *)
(* provider; only a name outside the allowed set fails.                    *)
(***************************************************************************)
KeyPresent == m_provider = "dummy" \/ m_provider \in m_keys
FactoryCalled == m_client # NoClient("none")

C26_ClientForEveryProvider ==
    (FactoryCalled /\ m_provider \in ALLOWED_PROVIDERS /\ KeyPresent)
        => (m_client.ok /\ m_client.val = m_provider)


(***************************************************************************)
(* C27: in fetch_pmc_corpus, for any PMIDs and any outcomes of link        *)
(* resolution and fetching, downloaded + skipped <= target_n holds at      *)
(* every moment; no PMID is resolved or fetched once downloaded + skipped  *)
(* has reached target_n; and with resume enabled a PMID whose XML file     *)
(* exists is counted as skipped and not fetched.                           *)
(***************************************************************************)
C27_StopsAtTarget ==
    /\ f_counts.downloaded + f_counts.skipped <= f_target
    /\ \A j \in 1..Len(f_log) :
          /\ ~f_log[j].met
          /\ (f_resume /\ f_log[j].existed)
                => (f_log[j].event = "skipped" /\ ~f_log[j].fetched)
    /\ Len(f_log) = f_i
    /\ f_counts.skipped = Cardinality({j \in 1..Len(f_log) : f_log[j].event = "skipped"})
    /\ (f_pc = "done" /\ f_i < f_pmids)
          => f_counts.downloaded + f_counts.skipped = f_target

C27_Witness ==
    /\ f_pc = "done" /\ f_resume /\ f_target = 2 /\ f_pmids = 3 /\ f_i = 2
    /\ f_counts.skipped = 1 /\ f_counts.downloaded = 1
    /\ f_log[1].event = "downloaded" /\ f_log[2].event = "skipped"


(***************************************************************************)
(* C24: when load() is invoked again on a store in use, no retrieve call   *)
(* searches an index and reads a lookup that differ in size or that come   *)
(* from different loads.                                                   *)
(***************************************************************************)
C24_ReadersSeeOneLoad ==
    r_seen # None
        => LET index == r_seen[1].index
               lookup == r_seen[1].lookup
           IN /\ ntotal(index) = Len(lookup)
              /\ \A i \in 1..Len(lookup) :
                    lookup[i].text = (IF index.vectors[1] = <<1, 0>> THEN <<"a">> ELSE <<"b">>)


(***************************************************************************)
(* C25: when two builds without force run against the same out_dir, in no  *)
(* interleaving do both of them write artifacts there.                     *)
(***************************************************************************)
HasWritten(pc) == pc \in {"index_saved", "lookup_open", "lookup_saved", "meta_open", "done"}

C25_OneBuildWrites == ~(HasWritten(b_pc) /\ HasWritten(p_pc))


(***************************************************************************)
(* C29: for every non-empty dataset written by build_chunks_dataset, the   *)
(* index build over it followed by IndexStore.load() on the three          *)
(* artifacts succeeds, and lookup[i] carries the text and the chunk_id of  *)
(* the i-th dataset record.                                                *)
(***************************************************************************)
C29_RoundTrip ==
    (d_pc = "done" /\ d_out.lines # <<>>)
        => /\ b_pc = "failed" => (b_err = "Index already exists" /\ ~b_force)
           /\ l_pc # "failed"
           /\ l_pc = "done"
                 => /\ ntotal(s_index[1]) = Len(d_out.lines)
                    /\ Len(s_lookup) = Len(d_out.lines)
                    /\ \A i \in 1..Len(s_lookup) :
                          /\ s_lookup[i].text = d_out.lines[i].text
                          /\ s_lookup[i].chunk_id = d_out.lines[i].chunk_id
                          /\ s_lookup[i].row_id = i - 1
                          /\ s_index[1].vectors[i] = EmbedText(d_out.lines[i].text)

C29_Witness ==
    /\ d_pc = "done" /\ Len(d_out.lines) >= 3 /\ b_before.index.exists
    /\ l_pc = "done" /\ Len(s_lookup) = Len(d_out.lines)
    /\ s_lookup[3].text = d_out.lines[3].text
    /\ s_lookup[1].text # s_lookup[2].text

====
